---------------------------- MODULE Spec2Model ----------------------------
(***************************************************************************)
(* A model of the GGS node (logos-42/GGS): the dual-signature crypto       *)
(* suite, the consensus engine with its stake ledger, the inference engine *)
(* (sparse top-k updates with residual feedback, dense blending), the      *)
(* topology selector, the bandwidth budget and the node loop that binds    *)
(* them together.                                                          *)
(*                                                                         *)
(* Numbers.  f32/f64 quantities are fixed-point integers:                  *)
(*   - model parameters, residuals and update values: integer quanta;      *)
(*     a product with 0.5 or 0.8/0.2 rounds toward minus infinity, which   *)
(*     stands for the rounding of the float operation;                     *)
(*   - similarity and geo affinity: tenths; scores: hundredths;            *)
(*   - stakes and reputation: twentieths (0.05 is one unit);               *)
(*   - combined weights and staking scores: hundredths.                    *)
(* Time is the monotonic clock (Instant) in whole seconds.                 *)
(* u64 and u32 are modelled with the small maxima U64Max and U32Modulus.   *)
(***************************************************************************)
EXTENDS Integers, Sequences, FiniteSets, TLC

VARIABLES
    now,            \* the monotonic clock, Instant::now()
    suite,          \* CryptoSuite: the keys this node holds
    cmsg,           \* crypto: the SignedGossip under verification
    corigin,        \* crypto: how cmsg came about, and who signed it
    cverdict,       \* crypto: the last result of ConsensusEngine::verify
    bandwidth,      \* BandwidthBudget: window_start, sparse_sent, dense_sent
    grants,         \* history: what allow_sparse / allow_dense granted, by time
    lastcall,       \* history: the last allow_* call and its result
    model,          \* ModelState: params, residual, version
    update,         \* the last SparseUpdate make_sparse_update returned
    trail,          \* history: the last inference operation and its trace
    peers,          \* TopologySelector.peers: peer id -> PeerProfile
    lastpeer,       \* history: the last topology operation
    ledger,         \* ConsensusEngine.ledger: peer id -> StakeRecord
    lastledger,     \* history: the last ledger operation
    tick_counter,   \* Node.tick_counter
    pc,             \* Node::run: "running", "exited" (returned Err), "panicked"
    rx,             \* history: the event the loop handled last, and how many
    sent,           \* history: the publish attempts of the last handler
    steps,          \* history: the steps the last handler completed
    calls,          \* history: the budget calls the last handler made
    loop,           \* Node::run's select!: what is ready, what runs, what ran
    gateway,        \* QuicGateway: the pool of sessions and the broadcast in progress
    net             \* the rest of the system: this node's inbox, and the other node

vars == <<now, suite, cmsg, corigin, cverdict, bandwidth, grants, lastcall,
          model, update, trail, peers, lastpeer, ledger, lastledger,
          tick_counter, pc,
          rx, sent, steps, calls, loop, gateway, net>>

cryptoVars == <<suite, cmsg, corigin, cverdict>>
budgetVars == <<bandwidth, grants, lastcall>>
inferenceVars == <<model, update, trail>>
topologyVars == <<peers, lastpeer>>
ledgerVars == <<ledger, lastledger>>
nodeVars == <<tick_counter, pc, rx, sent, steps, calls, loop, gateway, net>>

(***************************************************************************)
(* Bounds of the model.                                                    *)
(***************************************************************************)
NumKeys == 2          \* key material: secrets 1..NumKeys on each curve
MaxTime == 3          \* the clock runs from 0 to MaxTime
U64Max == 4           \* stands for u64::MAX
U32Modulus == 16      \* stands for 2^32, the modulus of an `as u32` cast

Min(a, b) == IF a <= b THEN a ELSE b
Max(a, b) == IF a >= b THEN a ELSE b
Abs(a) == IF a >= 0 THEN a ELSE -a

\* Peer ids: the node's own (comms.peer_id) and those of two remote peers.
SelfId == 0
PeerIds == {1, 2}
Ids == {SelfId} \cup PeerIds
KeyIds == 1..NumKeys

(***************************************************************************)
(* types.rs: value types and the payload serialization                     *)
(***************************************************************************)

\* TensorSnapshot::new: dim is the length of the values.
TensorSnapshotNew(values, version) ==
    [dim |-> Len(values), values |-> values, version |-> version]

\* TensorSnapshot::hash: Keccak-256 over dim, version and the values.
TensorSnapshotHash(t) ==
    [alg |-> "keccak256", of |-> <<t.dim, t.version, t.values>>]

\* decompress_indices: running sums of the deltas (usize additions).
RECURSIVE DecompressFrom(_, _)
DecompressFrom(compressed, last) ==
    IF compressed = <<>> THEN <<>>
    ELSE LET next == last + Head(compressed)
         IN  <<next>> \o DecompressFrom(Tail(compressed), next)

decompress_indices(compressed) == DecompressFrom(compressed, 0)

\* The GgsMessage variants.
Heartbeat(peer, model_hash) ==
    [type |-> "Heartbeat", peer |-> peer, model_hash |-> model_hash]
SimilarityProbe(embedding, position, sender) ==
    [type |-> "SimilarityProbe", embedding |-> embedding,
     position |-> position, sender |-> sender]
SparseUpdateMsg(upd, sender) ==
    [type |-> "SparseUpdate", update |-> upd, sender |-> sender]
DenseSnapshotMsg(snapshot, sender) ==
    [type |-> "DenseSnapshot", snapshot |-> snapshot, sender |-> sender]

\* The peer id a payload names (consensus.rs, the match in sign).
PayloadPeer(p) == IF p.type = "Heartbeat" THEN p.peer ELSE p.sender

\* serde_json::to_vec(&payload): the externally tagged enum, the fields in
\* declaration order.  The result is the byte string that gets signed.
Serialize(p) ==
    CASE p.type = "Heartbeat" ->
            <<"Heartbeat", <<"peer", p.peer>>, <<"model_hash", p.model_hash>>>>
      [] p.type = "SparseUpdate" ->
            <<"SparseUpdate",
              <<"update", <<p.update.indices, p.update.values, p.update.version>>>>,
              <<"sender", p.sender>>>>
      [] p.type = "DenseSnapshot" ->
            <<"DenseSnapshot",
              <<"snapshot", <<p.snapshot.dim, p.snapshot.values, p.snapshot.version>>>>,
              <<"sender", p.sender>>>>
      [] p.type = "SimilarityProbe" ->
            <<"SimilarityProbe", <<"embedding", p.embedding>>,
              <<"position", <<p.position.lat, p.position.lon>>>>,
              <<"sender", p.sender>>>>

(***************************************************************************)
(* crypto.rs: the dual-signature suite                                     *)
(*                                                                         *)
(* A secret key is an element of KeyIds; the public key derived from it is *)
(* identified with it.  A raw signature names the key that made it and the *)
(* message it was made over: it validates under a public key exactly when  *)
(* both match (unforgeability).  Keccak-256 is collision free.  A string   *)
(* is a record: an Ethereum address carries whether its hex digits are in  *)
(* upper case, an encoded signature whether it decodes at all.             *)
(***************************************************************************)

keccak(payload) == [alg |-> "keccak256", of |-> payload]

\* eth_address_from_key: "0x" + hex::encode (lower case) of the key's hash.
eth_address_from_key(key) == [hex |-> key, upper |-> FALSE]

\* str::to_lowercase on an address string.
ToLowercase(address) == [address EXCEPT !.upper = FALSE]

\* EthIdentity::new / SolIdentity::new: the identities of a suite.
EthIdentity(key) ==
    [signing_key |-> key, verifying_key |-> key,
     address |-> eth_address_from_key(key)]
SolIdentity(key) == [keypair |-> key, pubkey |-> [bs58 |-> key]]

\* CryptoSuite::new
CryptoSuite(eth_key, sol_key) ==
    [eth |-> EthIdentity(eth_key), sol |-> SolIdentity(sol_key)]

Suites == {CryptoSuite(e, s) : e \in KeyIds, s \in KeyIds}

\* The signature primitives of k256 and ed25519_dalek.
RawSign(curve, key, message) == [curve |-> curve, key |-> key, message |-> message]
RawVerify(curve, public, message, signature) ==
    /\ signature.curve = curve
    /\ signature.key = public
    /\ signature.message = message

\* hex::encode / bs58::encode of a raw signature, and a string that does not
\* decode to one.
Encoded(raw) == [decodes |-> TRUE, raw |-> raw]
Undecodable == [decodes |-> FALSE]

\* EthIdentity::sign: signs the Keccak-256 digest of the payload.
EthSign_SignsPayload(id, payload) ==
    [address |-> id.address,
     signature |-> Encoded(RawSign("secp256k1", id.signing_key, payload))]

EthSign(id, payload) ==
    [address |-> id.address,
     signature |-> Encoded(RawSign("secp256k1", id.signing_key, keccak(payload)))]

\* EthIdentity::verify
EthVerify_NoAddressCheck(id, payload, sig) ==
    IF sig.signature.decodes
    THEN RawVerify("secp256k1", id.verifying_key, keccak(payload), sig.signature.raw)
    ELSE FALSE

EthVerify(id, payload, sig) ==
    IF ToLowercase(sig.address) # ToLowercase(id.address) THEN FALSE
    ELSE IF sig.signature.decodes
    THEN RawVerify("secp256k1", id.verifying_key, keccak(payload), sig.signature.raw)
    ELSE FALSE

\* SolIdentity::sign: signs the payload bytes directly.
SolSign(id, payload) ==
    [pubkey |-> id.pubkey,
     signature |-> Encoded(RawSign("ed25519", id.keypair, payload))]

\* SolIdentity::verify
SolVerify(id, payload, sig) ==
    IF sig.pubkey # id.pubkey THEN FALSE
    ELSE IF sig.signature.decodes
    THEN RawVerify("ed25519", id.keypair, payload, sig.signature.raw)
    ELSE FALSE

\* CryptoSuite::sign_bytes
sign_bytes(s, payload) ==
    [eth |-> EthSign(s.eth, payload), sol |-> SolSign(s.sol, payload)]

\* CryptoSuite::verify
CryptoVerify_AnySigner(s, payload, sig) ==
    /\ sig.eth.signature.decodes /\ sig.sol.signature.decodes
    /\ RawVerify("secp256k1", sig.eth.signature.raw.key, keccak(payload), sig.eth.signature.raw)
    /\ RawVerify("ed25519", sig.sol.signature.raw.key, payload, sig.sol.signature.raw)

CryptoVerify(s, payload, sig) ==
    EthVerify(s.eth, payload, sig.eth) /\ SolVerify(s.sol, payload, sig.sol)

(***************************************************************************)
(* consensus.rs: the signing wrapper and the stake ledger                  *)
(***************************************************************************)
HeartbeatTimeout == 2   \* ConsensusConfig.heartbeat_timeout, in seconds

\* ceil(20 * e^(k/2)) for k = 1..10: 20 + x >= ExpHalves[k] says that
\* ln_1p(x / 20) >= k / 2.
ExpHalves == <<33, 55, 90, 148, 244, 402, 663, 1092, 1801, 2969>>

\* f64::ln_1p of a quantity in twentieths, in hundredths, rounded down to a
\* multiple of 0.5.
ln_1p(x) == 50 * Cardinality({k \in 1..Len(ExpHalves) : 20 + x >= ExpHalves[k]})

\* StakeRecord::combined_weight, in hundredths.
combined_weight(record) ==
    LET stake_component == ln_1p(record.stake_eth + record.stake_sol)
        rep_component == ln_1p(Max(record.reputation, 0))
    IN  Min(Max(stake_component + rep_component, 0), 500)

\* ConsensusEngine::sign
ConsensusSign(s, ldg, payload) ==
    LET bytes == Serialize(payload)
        peer_id == PayloadPeer(payload)
    IN  [payload |-> payload,
         signature |-> sign_bytes(s, bytes),
         staking_score |-> IF peer_id \in DOMAIN ldg
                           THEN combined_weight(ldg[peer_id]) ELSE 10]

\* ConsensusEngine::verify
ConsensusVerify_IgnoresPayload(s, msg) ==
    /\ msg.signature.eth.address = s.eth.address
    /\ msg.signature.sol.pubkey = s.sol.pubkey

ConsensusVerify_CoversScore(s, msg) ==
    /\ CryptoVerify(s, Serialize(msg.payload), msg.signature)
    /\ msg.staking_score = ConsensusSign(s, <<>>, msg.payload).staking_score

ConsensusVerify(s, msg) == CryptoVerify(s, Serialize(msg.payload), msg.signature)

\* ConsensusEngine::update_stake, at time t.
update_stake_NoClamp(ldg, peer, delta_eth, delta_sol, reputation_delta, t) ==
    LET entry == IF peer \in DOMAIN ldg THEN ldg[peer]
                 ELSE [stake_eth |-> 20, stake_sol |-> 2, reputation |-> 20,
                       last_seen |-> t]
        upd == [stake_eth |-> entry.stake_eth + delta_eth,
                stake_sol |-> entry.stake_sol + delta_sol,
                reputation |-> entry.reputation + reputation_delta,
                last_seen |-> t]
    IN  [p \in DOMAIN ldg \cup {peer} |-> IF p = peer THEN upd ELSE ldg[p]]

update_stake(ldg, peer, delta_eth, delta_sol, reputation_delta, t) ==
    LET entry == IF peer \in DOMAIN ldg THEN ldg[peer]
                 ELSE [stake_eth |-> 20, stake_sol |-> 2, reputation |-> 20,
                       last_seen |-> t]
        upd == [stake_eth |-> Max(entry.stake_eth + delta_eth, 0),
                stake_sol |-> Max(entry.stake_sol + delta_sol, 0),
                reputation |-> Max(entry.reputation + reputation_delta, -20),
                last_seen |-> t]
    IN  [p \in DOMAIN ldg \cup {peer} |-> IF p = peer THEN upd ELSE ldg[p]]

\* ConsensusEngine::prune_stale, at time t.
prune_stale(ldg, t) ==
    LET deadline == t - HeartbeatTimeout
    IN  [p \in {q \in DOMAIN ldg : ldg[q].last_seen >= deadline} |-> ldg[p]]

\* ConsensusEngine::stake_weight
stake_weight(ldg, peer) ==
    IF peer \in DOMAIN ldg THEN combined_weight(ldg[peer]) ELSE 0

(***************************************************************************)
(* comms.rs: the bandwidth budget                                          *)
(***************************************************************************)
SparsePerWindow == 2       \* BandwidthBudgetConfig.sparse_per_window
DenseBytesPerWindow == 8   \* BandwidthBudgetConfig.dense_bytes_per_window
WindowSecs == 2            \* BandwidthBudgetConfig.window_secs
F32Bytes == 4              \* std::mem::size_of::<f32>()

\* BandwidthBudget::new, at time t.
BandwidthBudgetNew(t) == [window_start |-> t, sparse_sent |-> 0, dense_sent |-> 0]

\* BandwidthBudget::rotate, at time t.
rotate_KeepsCounters(b, t) ==
    IF t - b.window_start >= WindowSecs
    THEN [b EXCEPT !.window_start = t]
    ELSE b

rotate(b, t) ==
    IF t - b.window_start >= WindowSecs
    THEN [window_start |-> t, sparse_sent |-> 0, dense_sent |-> 0]
    ELSE b

\* BandwidthBudget::allow_sparse, at time t: the budget after, and the result.
allow_sparse_OffByOne(b, t) ==
    LET r == rotate(b, t)
    IN  IF r.sparse_sent <= SparsePerWindow
        THEN [budget |-> [r EXCEPT !.sparse_sent = @ + 1], ok |-> TRUE]
        ELSE [budget |-> r, ok |-> FALSE]

allow_sparse_CountsDenied(b, t) ==
    LET r == rotate(b, t)
    IN  IF r.sparse_sent < SparsePerWindow
        THEN [budget |-> [r EXCEPT !.sparse_sent = @ + 1], ok |-> TRUE]
        ELSE [budget |-> [r EXCEPT !.sparse_sent = @ + 1], ok |-> FALSE]

allow_sparse(b, t) ==
    LET r == rotate(b, t)
    IN  IF r.sparse_sent < SparsePerWindow
        THEN [budget |-> [r EXCEPT !.sparse_sent = @ + 1], ok |-> TRUE]
        ELSE [budget |-> r, ok |-> FALSE]

\* BandwidthBudget::allow_dense, at time t.
allow_dense(b, bytes, t) ==
    LET r == rotate(b, t)
    IN  IF r.dense_sent + bytes <= DenseBytesPerWindow
        THEN [budget |-> [r EXCEPT !.dense_sent = @ + bytes], ok |-> TRUE]
        ELSE [budget |-> r, ok |-> FALSE]

(***************************************************************************)
(* inference.rs: the model state and its operations                        *)
(***************************************************************************)
\* u64::saturating_add(1)
WrappingInc(v) == (v + 1) % (U64Max + 1)

SaturatingInc(v) == IF v >= U64Max THEN U64Max ELSE v + 1

Dim(m) == Len(m.params)

\* InferenceEngine::new: zero residual, version 1.
InferenceNew(params) ==
    [params |-> params, residual |-> [i \in 1..Len(params) |-> 0], version |-> 1]

\* InferenceEngine::embedding, tensor_snapshot and tensor_hash.
embedding(m) == m.params
tensor_snapshot(m) == TensorSnapshotNew(m.params, m.version)
tensor_hash(m) == TensorSnapshotHash(tensor_snapshot(m))

\* The delta vector of make_sparse_update: params + residual.
DeltaOf(m) == [i \in 1..Dim(m) |-> m.params[i] + m.residual[i]]

\* idx_val.sort_by(|a, b| b.abs cmp a.abs): a stable sort, so that entries
\* of equal magnitude keep their ascending index order.  Index j comes
\* before index i when it is larger in magnitude, or equal and smaller.
\* The result lists the 0-based indices in sorted order.
Precedes_TiesLast(delta, j, i) ==
    \/ Abs(delta[j]) > Abs(delta[i])
    \/ Abs(delta[j]) = Abs(delta[i]) /\ j > i

Precedes(delta, j, i) ==
    \/ Abs(delta[j]) > Abs(delta[i])
    \/ Abs(delta[j]) = Abs(delta[i]) /\ j < i

SortByMagnitude(delta) ==
    LET n == Len(delta)
        rank(i) == Cardinality({j \in 1..n : Precedes(delta, j, i)})
    IN  [r \in 1..n |-> (CHOOSE i \in 1..n : rank(i) = r - 1) - 1]

\* The loop of make_sparse_update over topk.  `checked` says whether the
\* build checks arithmetic overflow (debug) or wraps (release): i - last on
\* usize with i < last panics in the former and wraps in the latter, and the
\* `as u32` cast keeps the low bits.
RECURSIVE EmitLoop_NoFeedback(_, _, _, _)
EmitLoop_NoFeedback(topk, delta, acc, checked) ==
    IF topk = <<>> THEN acc
    ELSE LET i == Head(topk)
             v == delta[i + 1]
             first == acc.indices = <<>>
             under == ~first /\ i < acc.last
             diff == IF first THEN i % U32Modulus
                     ELSE (i - acc.last) % U32Modulus
         IN  IF under /\ checked
             THEN [acc EXCEPT !.panicked = TRUE, !.underflow = TRUE]
             ELSE EmitLoop_NoFeedback(Tail(topk), delta,
                           [indices |-> Append(acc.indices, diff),
                            values |-> Append(acc.values, v),
                            residual |-> acc.residual,
                            last |-> i,
                            emitted |-> Append(acc.emitted, i),
                            underflow |-> acc.underflow \/ under,
                            panicked |-> FALSE],
                           checked)

RECURSIVE EmitLoop(_, _, _, _)
EmitLoop(topk, delta, acc, checked) ==
    IF topk = <<>> THEN acc
    ELSE LET i == Head(topk)
             v == delta[i + 1]
             first == acc.indices = <<>>
             under == ~first /\ i < acc.last
             diff == IF first THEN i % U32Modulus
                     ELSE (i - acc.last) % U32Modulus
         IN  IF under /\ checked
             THEN [acc EXCEPT !.panicked = TRUE, !.underflow = TRUE]
             ELSE EmitLoop(Tail(topk), delta,
                           [indices |-> Append(acc.indices, diff),
                            values |-> Append(acc.values, v),
                            residual |-> [acc.residual EXCEPT ![i + 1] = delta[i + 1] - v],
                            last |-> i,
                            emitted |-> Append(acc.emitted, i),
                            underflow |-> acc.underflow \/ under,
                            panicked |-> FALSE],
                           checked)

\* InferenceEngine::make_sparse_update(k): the state after, the update
\* returned, the positions emitted in emission order, whether a subtraction
\* underflowed and whether the call panicked (then nothing is returned and
\* the version is not bumped).
make_sparse_update_ConsumesParams(m, k, checked) ==
    IF Dim(m) = 0
    THEN [state |-> m,
          update |-> [indices |-> <<>>, values |-> <<>>, version |-> m.version],
          emitted |-> <<>>, underflow |-> FALSE, panicked |-> FALSE]
    ELSE LET delta == DeltaOf(m)
             topk == SubSeq(SortByMagnitude(delta), 1, Min(k, Dim(m)))
             acc == EmitLoop(topk, delta,
                             [indices |-> <<>>, values |-> <<>>,
                              residual |-> m.residual, last |-> 0,
                              emitted |-> <<>>, underflow |-> FALSE,
                              panicked |-> FALSE],
                             checked)
             version == SaturatingInc(m.version)
             params == [i \in 1..Dim(m) |->
                           IF (i - 1) \in {acc.emitted[n] : n \in 1..Len(acc.emitted)}
                           THEN 0 ELSE m.params[i]]
         IN  IF acc.panicked
             THEN [state |-> [m EXCEPT !.residual = acc.residual, !.params = params],
                   update |-> [indices |-> <<>>, values |-> <<>>, version |-> m.version],
                   emitted |-> acc.emitted, underflow |-> TRUE, panicked |-> TRUE]
             ELSE [state |-> [params |-> params, residual |-> acc.residual,
                              version |-> version],
                   update |-> [indices |-> acc.indices, values |-> acc.values,
                               version |-> version],
                   emitted |-> acc.emitted, underflow |-> acc.underflow,
                   panicked |-> FALSE]

make_sparse_update(m, k, checked) ==
    IF Dim(m) = 0
    THEN [state |-> m,
          update |-> [indices |-> <<>>, values |-> <<>>, version |-> m.version],
          emitted |-> <<>>, underflow |-> FALSE, panicked |-> FALSE]
    ELSE LET delta == DeltaOf(m)
             idx_val == SortByMagnitude(delta)
             take == Min(k, Dim(m))
             topk == SubSeq(idx_val, 1, take)
             acc == EmitLoop(topk, delta,
                             [indices |-> <<>>, values |-> <<>>,
                              residual |-> m.residual, last |-> 0,
                              emitted |-> <<>>, underflow |-> FALSE,
                              panicked |-> FALSE],
                             checked)
             version == SaturatingInc(m.version)
         IN  IF acc.panicked
             THEN [state |-> [m EXCEPT !.residual = acc.residual],
                   update |-> [indices |-> <<>>, values |-> <<>>, version |-> m.version],
                   emitted |-> acc.emitted, underflow |-> TRUE, panicked |-> TRUE]
             ELSE [state |-> [params |-> m.params, residual |-> acc.residual,
                              version |-> version],
                   update |-> [indices |-> acc.indices, values |-> acc.values,
                               version |-> version],
                   emitted |-> acc.emitted, underflow |-> acc.underflow,
                   panicked |-> FALSE]

\* The loop of apply_sparse_update over idxs.iter().zip(values).
RECURSIVE MergeLoop_OffByOne(_, _, _)
MergeLoop_OffByOne(m, idxs, values) ==
    IF idxs = <<>> \/ values = <<>> THEN m
    ELSE LET pos == Head(idxs)
             v == Head(values)
         IN  IF pos + 1 < Dim(m)
             THEN LET old == m.params[pos + 1]
                      merged == (old + v) \div 2
                  IN  MergeLoop_OffByOne([m EXCEPT !.params[pos + 1] = merged,
                                                   !.residual[pos + 1] = @ + (old - merged)],
                                         Tail(idxs), Tail(values))
             ELSE MergeLoop_OffByOne(m, Tail(idxs), Tail(values))

RECURSIVE MergeLoop(_, _, _)
MergeLoop(m, idxs, values) ==
    IF idxs = <<>> \/ values = <<>> THEN m
    ELSE LET pos == Head(idxs)
             v == Head(values)
         IN  IF pos < Dim(m)
             THEN LET old == m.params[pos + 1]
                      merged == (old + v) \div 2
                  IN  MergeLoop([m EXCEPT !.params[pos + 1] = merged,
                                          !.residual[pos + 1] = @ + (old - merged)],
                                Tail(idxs), Tail(values))
             ELSE MergeLoop(m, Tail(idxs), Tail(values))

\* InferenceEngine::apply_sparse_update
apply_sparse_update(m, u) ==
    IF u.indices = <<>> THEN m
    ELSE LET merged == MergeLoop(m, decompress_indices(u.indices), u.values)
         IN  [merged EXCEPT !.version = Max(m.version, u.version)]

\* InferenceEngine::apply_dense_snapshot
apply_dense_snapshot(m, snapshot) ==
    LET len == Min(Dim(m), Len(snapshot.values))
    IN  [m EXCEPT !.params = [i \in 1..Dim(m) |->
                                 IF i <= len
                                 THEN (4 * m.params[i] + snapshot.values[i]) \div 5
                                 ELSE m.params[i]],
                  !.version = Max(m.version, snapshot.version)]

\* InferenceEngine::local_train_step, with the noise the rng drew.
local_train_step(m, noise) ==
    [m EXCEPT !.params = [i \in 1..Dim(m) |-> m.params[i] + noise[i]],
              !.version = SaturatingInc(m.version)]

(***************************************************************************)
(* topology.rs: the peer map and the neighbor selection                    *)
(*                                                                         *)
(* A PeerProfile keeps similarity, geo_affinity, score and last_seen; its  *)
(* embedding and position are only ever read back for a log line.          *)
(* Positions lie on the equator, where the haversine distance is the       *)
(* Earth's radius times the difference of the longitudes.                  *)
(***************************************************************************)
EmbeddingWeight == 6    \* EMBEDDING_WEIGHT = 0.6, in tenths
GeoWeight == 4          \* GEO_WEIGHT = 0.4, in tenths
MaxNeighbors == 1       \* TopologyConfig.max_neighbors
FailoverPool == 1       \* TopologyConfig.failover_pool
MinScore == 15          \* TopologyConfig.min_score = 0.15, in hundredths
GeoScaleKm == 500       \* TopologyConfig.geo_scale_km
PeerStaleSecs == 2      \* TopologyConfig.peer_stale_secs
KmPerDegree == 111      \* EARTH_RADIUS_KM * pi / 180, one degree of longitude

GeoPoint(lon) == [lat |-> 0, lon |-> lon]

\* GeoPoint::distance_km between two points of the equator.
distance_km(a, b) == KmPerDegree * Abs(b.lon - a.lon)

RECURSIVE SumTo(_, _)
SumTo(f, n) == IF n = 0 THEN 0 ELSE f[n] + SumTo(f, n - 1)

\* cosine_sim, in tenths, rounded toward zero: dot / (sqrt(na) * sqrt(nb))
\* over the leading min(len) dimensions, and 0 when a norm is 0.
cosine_sim(a, b) ==
    LET n == Min(Len(a), Len(b))
        dot == SumTo([i \in 1..n |-> a[i] * b[i]], n)
        na == SumTo([i \in 1..n |-> a[i] * a[i]], n)
        nb == SumTo([i \in 1..n |-> b[i] * b[i]], n)
        mag == CHOOSE c \in 0..10 :
                   /\ c * c * na * nb <= 100 * dot * dot
                   /\ c < 10 => (c + 1) * (c + 1) * na * nb > 100 * dot * dot
    IN  IF na = 0 \/ nb = 0 THEN 0
        ELSE IF dot >= 0 THEN mag ELSE -mag

\* TopologySelector::geo_affinity, in tenths.
geo_affinity(self_position, other) ==
    LET dist == distance_km(self_position, other)
    IN  Min(Max((10 * GeoScaleKm) \div (GeoScaleKm + dist), 0), 10)

\* TopologySelector::cleanup_locked, at time t.
cleanup_NeverEvicts(ps, t) == ps

cleanup_locked(ps, t) ==
    LET deadline == t - PeerStaleSecs
    IN  [p \in {q \in DOMAIN ps : ps[q].last_seen >= deadline} |-> ps[p]]

\* TopologySelector::update_peer, at time t.
update_peer(ps, peer_id, emb, position, self_embedding, self_position, t) ==
    LET similarity == cosine_sim(self_embedding, emb)
        geo == geo_affinity(self_position, position)
        score == EmbeddingWeight * similarity + GeoWeight * geo
        profile == [similarity |-> similarity, geo_affinity |-> geo,
                    score |-> score, last_seen |-> t]
        inserted == [p \in DOMAIN ps \cup {peer_id} |->
                        IF p = peer_id THEN profile ELSE ps[p]]
    IN  cleanup_locked(inserted, t)

\* TopologySelector::mark_unreachable
mark_unreachable_Keeps(ps, peer_id) == ps

mark_unreachable(ps, peer_id) == [p \in DOMAIN ps \ {peer_id} |-> ps[p]]

\* What ranked.sort_by(score descending) can produce: the sort is stable and
\* starts from the iteration order of a HashMap, which is arbitrary, so the
\* result is any arrangement of the peers with scores in descending order.
Rankings_Ascending(ps) ==
    LET n == Cardinality(DOMAIN ps)
    IN  {r \in [1..n -> DOMAIN ps] :
            /\ \A i, j \in 1..n : i # j => r[i] # r[j]
            /\ \A i \in 1..n : \A j \in 1..n :
                   i < j => ps[r[i]].score <= ps[r[j]].score}

Rankings(ps) ==
    LET n == Cardinality(DOMAIN ps)
    IN  {r \in [1..n -> DOMAIN ps] :
            /\ \A i, j \in 1..n : i # j => r[i] # r[j]
            /\ \A i \in 1..n : \A j \in 1..n :
                   i < j => ps[r[i]].score >= ps[r[j]].score}

\* The loop of neighbor_sets over ranked.
RECURSIVE FillLoop_NoFilter(_, _, _, _)
FillLoop_NoFilter(ranked, ps, primary, backups) ==
    IF ranked = <<>> THEN [primary |-> primary, backups |-> backups]
    ELSE LET peer == Head(ranked)
         IN  IF Len(primary) < MaxNeighbors
             THEN FillLoop_NoFilter(Tail(ranked), ps, Append(primary, peer), backups)
             ELSE IF Len(backups) < FailoverPool
             THEN FillLoop_NoFilter(Tail(ranked), ps, primary, Append(backups, peer))
             ELSE [primary |-> primary, backups |-> backups]

RECURSIVE FillLoop(_, _, _, _)
FillLoop(ranked, ps, primary, backups) ==
    IF ranked = <<>> THEN [primary |-> primary, backups |-> backups]
    ELSE LET peer == Head(ranked)
         IN  IF ps[peer].score < MinScore
             THEN FillLoop(Tail(ranked), ps, primary, backups)
             ELSE IF Len(primary) < MaxNeighbors
             THEN FillLoop(Tail(ranked), ps, Append(primary, peer), backups)
             ELSE IF Len(backups) < FailoverPool
             THEN FillLoop(Tail(ranked), ps, primary, Append(backups, peer))
             ELSE [primary |-> primary, backups |-> backups]

\* TopologySelector::neighbor_sets, for the order `ranked` the sort produced.
neighbor_sets(ps, ranked) == FillLoop(ranked, ps, <<>>, <<>>)

\* TopologySelector::select_neighbors
select_neighbors(ps, ranked) == neighbor_sets(ps, ranked).primary

Range(seq) == {seq[i] : i \in 1..Len(seq)}

(***************************************************************************)
(* Initial values of the components                                        *)
(***************************************************************************)
NoGrants == [sparse |-> 0, dense |-> 0]

CryptoInit ==
    /\ suite \in Suites
    /\ cmsg = <<>>
    /\ corigin = [how |-> "none", signer |-> suite, bundle_intact |-> TRUE]
    /\ cverdict = "none"

BudgetInit ==
    /\ bandwidth = BandwidthBudgetNew(0)
    /\ grants = [recent |-> [d \in 0..(WindowSecs - 1) |-> NoGrants],
                 window |-> NoGrants]
    /\ lastcall = [op |-> "new", ok |-> TRUE, bytes |-> 0]

InferenceInit(initial) ==
    /\ model \in {InferenceNew(p) : p \in initial}
    /\ update = <<>>
    /\ trail = [op |-> "new", arg |-> <<>>, emitted |-> <<>>, underflow |-> FALSE,
                version_before |-> 1, n |-> 0]

TopologyInit ==
    /\ peers = <<>>
    /\ lastpeer = [op |-> "new", peer |-> SelfId, primary |-> <<>>, backups |-> <<>>,
                   evicted |-> {}, n |-> 0]

\* ConsensusEngine::new: an empty ledger.
LedgerInit ==
    /\ ledger = <<>>
    /\ lastledger = [op |-> "new", peer |-> SelfId, n |-> 0]

\* Node::new: no tick yet, the loop of Node::run running, no event handled.
NodeInit ==
    /\ tick_counter = 0
    /\ pc = "running"
    /\ rx = [kind |-> "none", ev |-> <<>>, n |-> 0]
    /\ sent = <<>>
    /\ steps = <<>>
    /\ calls = <<>>
    /\ loop = [delivered |-> 0, inbox |-> <<>>, due |-> 0, fired |-> 0,
               active |-> <<>>, log |-> <<>>, exited |-> FALSE]
    /\ gateway = [connections |-> <<>>, accepted |-> 0, pc |-> "idle", entries |-> <<>>,
                  dead_indices |-> <<>>, success |-> FALSE, opened |-> {}, failed |-> {},
                  pushed |-> {}, panicked |-> FALSE, returned |-> "none"]
    /\ net = [inbox |-> <<>>, parked |-> <<>>]

(***************************************************************************)
(* SpecCrypto: signing, tampering and verifying one SignedGossip           *)
(***************************************************************************)
SampleSnapshot == TensorSnapshotNew(<<1, -1>>, 2)

CryptoPayloads ==
    {Heartbeat(p, TensorSnapshotHash(SampleSnapshot)) : p \in Ids}
    \cup {SimilarityProbe(<<1, 0>>, GeoPoint(0), SelfId),
          SparseUpdateMsg([indices |-> <<0>>, values |-> <<1>>, version |-> 2], SelfId),
          DenseSnapshotMsg(SampleSnapshot, SelfId)}

OutsideCrypto ==
    UNCHANGED <<now, budgetVars, inferenceVars, topologyVars, ledgerVars, nodeVars>>

\* ConsensusEngine::sign by this node.
CSign(x) ==
    /\ cmsg' = <<ConsensusSign(suite, ledger, x)>>
    /\ corigin' = [how |-> "signed", signer |-> suite, bundle_intact |-> TRUE]
    /\ cverdict' = "none"
    /\ UNCHANGED suite
    /\ OutsideCrypto

\* ConsensusEngine::sign by a node that holds another suite.
CForeign(x, other) ==
    /\ other # suite
    /\ cmsg' = <<ConsensusSign(other, <<>>, x)>>
    /\ corigin' = [how |-> "foreign", signer |-> other, bundle_intact |-> TRUE]
    /\ cverdict' = "none"
    /\ UNCHANGED suite
    /\ OutsideCrypto

\* What a message can become in transit: another payload under the same
\* bundle, another staking score, or a bundle with a field altered.
Tampered(m) ==
    [payload |-> {[payload |-> x, signature |-> m.signature,
                   staking_score |-> m.staking_score] : x \in CryptoPayloads \ {m.payload}},
     score |-> {[m EXCEPT !.staking_score = 500]},
     bundle |-> {[m EXCEPT !.signature.eth.address.upper = TRUE]}
                \cup {[m EXCEPT !.signature.eth.address = eth_address_from_key(k)] : k \in KeyIds}
                \cup {[m EXCEPT !.signature.sol.pubkey = [bs58 |-> k]] : k \in KeyIds}
                \cup {[m EXCEPT !.signature.eth.signature = Undecodable],
                      [m EXCEPT !.signature.sol.signature = Undecodable]}]

CTamper ==
    /\ cmsg # <<>>
    /\ corigin.how # "tampered"
    /\ \E part \in {"payload", "score", "bundle"} :
         \E m \in Tampered(cmsg[1])[part] :
            /\ m # cmsg[1]
            /\ cmsg' = <<m>>
            /\ corigin' = [how |-> "tampered", signer |-> corigin.signer,
                           bundle_intact |-> corigin.bundle_intact /\ part # "bundle"]
    /\ cverdict' = "none"
    /\ UNCHANGED suite
    /\ OutsideCrypto

\* ConsensusEngine::verify by this node.
CVerify ==
    /\ cmsg # <<>>
    /\ cverdict' = IF ConsensusVerify(suite, cmsg[1]) THEN "true" ELSE "false"
    /\ UNCHANGED <<suite, cmsg, corigin>>
    /\ OutsideCrypto

InitCrypto ==
    /\ now = 0 /\ CryptoInit /\ BudgetInit /\ InferenceInit({<<>>})
    /\ TopologyInit /\ LedgerInit /\ NodeInit

NextCrypto ==
    \/ \E x \in CryptoPayloads : CSign(x)
    \/ \E x \in CryptoPayloads : \E other \in Suites : CForeign(x, other)
    \/ CTamper
    \/ CVerify

SpecCrypto == InitCrypto /\ [][NextCrypto]_vars

(***************************************************************************)
(* SpecBandwidth: allow_sparse and allow_dense called at arbitrary times   *)
(***************************************************************************)
\* The byte costs a caller passes: F32Bytes per parameter of a snapshot.
DenseSizes == {F32Bytes * d : d \in 0..3}

OutsideBudget ==
    UNCHANGED <<cryptoVars, inferenceVars, topologyVars, ledgerVars, nodeVars>>

\* The history of grants: `recent` holds what was granted in each of the
\* last WindowSecs seconds (recent[0] is the current second), `window` what
\* was granted since the budget last reset its window.
Granted(g, before, after, sparse, dense) ==
    LET base == IF after.window_start # before.window_start THEN NoGrants ELSE g.window
    IN  [recent |-> [g.recent EXCEPT ![0] = [sparse |-> @.sparse + sparse,
                                             dense |-> @.dense + dense]],
         window |-> [sparse |-> base.sparse + sparse, dense |-> base.dense + dense]]

BAllowSparse ==
    LET r == allow_sparse(bandwidth, now)
    IN  /\ bandwidth' = r.budget
        /\ grants' = Granted(grants, bandwidth, r.budget, IF r.ok THEN 1 ELSE 0, 0)
        /\ lastcall' = [op |-> "allow_sparse", ok |-> r.ok, bytes |-> 0]
        /\ UNCHANGED now
        /\ OutsideBudget

BAllowDense(bytes) ==
    LET r == allow_dense(bandwidth, bytes, now)
    IN  /\ bandwidth' = r.budget
        /\ grants' = Granted(grants, bandwidth, r.budget, 0, IF r.ok THEN bytes ELSE 0)
        /\ lastcall' = [op |-> "allow_dense", ok |-> r.ok, bytes |-> bytes]
        /\ UNCHANGED now
        /\ OutsideBudget

BAdvance ==
    /\ now < MaxTime
    /\ now' = now + 1
    /\ grants' = [grants EXCEPT !.recent =
                     [d \in 0..(WindowSecs - 1) |->
                         IF d = 0 THEN NoGrants ELSE grants.recent[d - 1]]]
    /\ lastcall' = [op |-> "advance", ok |-> TRUE, bytes |-> 0]
    /\ UNCHANGED bandwidth
    /\ OutsideBudget

InitBandwidth ==
    /\ now = 0 /\ CryptoInit /\ suite = CryptoSuite(1, 1) /\ BudgetInit
    /\ InferenceInit({<<>>}) /\ TopologyInit /\ LedgerInit /\ NodeInit

NextBandwidth ==
    \/ BAllowSparse
    \/ \E bytes \in DenseSizes : BAllowDense(bytes)
    \/ BAdvance

SpecBandwidth == InitBandwidth /\ [][NextBandwidth]_vars

(***************************************************************************)
(* SpecInference: up to MaxOps operations of the inference engine, in any  *)
(* order, from a state the engine can be in                                *)
(***************************************************************************)
SparseK == 16    \* the k of Node's make_sparse_update(16)
MaxOps == 2      \* the number of operations in a run

\* States of the engine: as InferenceEngine::new leaves it (load_or_random
\* yields a vector of any length), and after updates have been applied and
\* the version has run up to its maximum.
InitialModels ==
    {InferenceNew(p) : p \in {<<>>, <<1>>, <<1, 2>>, <<-2, 1>>, <<0, 0>>, <<2, 1, 0>>}}
    \cup {[params |-> <<1, 1>>, residual |-> <<2, -1>>, version |-> 3],
          [params |-> <<0, 2, -1>>, residual |-> <<1, 0, 2>>, version |-> U64Max]}

Ks == {0, 1, 2, SparseK}

\* The rng's draws for local_train_step: one per parameter.
Noises(d) == [1..d -> {-1, 1}]

\* Updates and snapshots as remote peers may send them: indices that repeat
\* a position (a delta of 0) or leave the range, a value list shorter than
\* the index list, versions below and above the current one.
SparseInputs ==
    {[indices |-> <<>>, values |-> <<>>, version |-> U64Max],
     [indices |-> <<0>>, values |-> <<3>>, version |-> 0],
     [indices |-> <<1, 1>>, values |-> <<-2, 4>>, version |-> 2],
     [indices |-> <<0, 0>>, values |-> <<2, -4>>, version |-> U64Max],
     [indices |-> <<0, 7>>, values |-> <<4, 2>>, version |-> 2],
     [indices |-> <<1, 1>>, values |-> <<5>>, version |-> 0]}

DenseInputs ==
    {TensorSnapshotNew(<<>>, U64Max), TensorSnapshotNew(<<6>>, 0),
     TensorSnapshotNew(<<-4, 6, 1, 1>>, 2), TensorSnapshotNew(<<1, 1>>, U64Max)}

OutsideInference ==
    UNCHANGED <<now, cryptoVars, budgetVars, topologyVars, ledgerVars, nodeVars>>

Trail(op, arg, emitted, underflow) ==
    [op |-> op, arg |-> arg, emitted |-> emitted, underflow |-> underflow,
     version_before |-> model.version, n |-> trail.n + 1]

CanOperate == trail.op # "panic" /\ trail.n < MaxOps

IMakeSparseUpdate(k, checked) ==
    LET r == make_sparse_update(model, k, checked)
    IN  /\ CanOperate
        /\ model' = r.state
        /\ update' = IF r.panicked THEN update ELSE <<r.update>>
        /\ trail' = Trail(IF r.panicked THEN "panic" ELSE "make_sparse_update",
                          <<k>>, r.emitted, r.underflow)
        /\ OutsideInference

IApplySparseUpdate(u) ==
    /\ CanOperate
    /\ model' = apply_sparse_update(model, u)
    /\ trail' = Trail("apply_sparse_update", <<u>>, <<>>, FALSE)
    /\ UNCHANGED update
    /\ OutsideInference

IApplyDenseSnapshot(snapshot) ==
    /\ CanOperate
    /\ model' = apply_dense_snapshot(model, snapshot)
    /\ trail' = Trail("apply_dense_snapshot", <<snapshot>>, <<>>, FALSE)
    /\ UNCHANGED update
    /\ OutsideInference

ILocalTrainStep(noise) ==
    /\ CanOperate
    /\ model' = local_train_step(model, noise)
    /\ trail' = Trail("local_train_step", <<noise>>, <<>>, FALSE)
    /\ UNCHANGED update
    /\ OutsideInference

InitInference ==
    /\ now = 0 /\ CryptoInit /\ suite = CryptoSuite(1, 1) /\ BudgetInit
    /\ model \in InitialModels
    /\ update = <<>>
    /\ trail = [op |-> "new", arg |-> <<>>, emitted |-> <<>>, underflow |-> FALSE,
                version_before |-> model.version, n |-> 0]
    /\ TopologyInit /\ LedgerInit /\ NodeInit

NextInference ==
    \/ \E k \in Ks : \E checked \in BOOLEAN : IMakeSparseUpdate(k, checked)
    \/ \E u \in SparseInputs : IApplySparseUpdate(u)
    \/ \E snapshot \in DenseInputs : IApplyDenseSnapshot(snapshot)
    \/ \E noise \in Noises(Dim(model)) : ILocalTrainStep(noise)

SpecInference == InitInference /\ [][NextInference]_vars

(***************************************************************************)
(* SpecTopology: up to MaxTopoOps changes of the peer map, at any times,   *)
(* and neighbor_sets in any state                                          *)
(***************************************************************************)
MaxTopoOps == 3     \* the number of update_peer / mark_unreachable calls in a run

\* What a probe carries (embedding, longitude of the position), and the
\* node's own embedding and position at that moment.  Against the own
\* embedding <<1, 0>> at longitude 0 the scores are 100, 82, 46, 40 and 4.
ProbeInputs ==
    {[embedding |-> <<1, 0>>, lon |-> 0], [embedding |-> <<1, 1>>, lon |-> 0],
     [embedding |-> <<1, 1>>, lon |-> 40], [embedding |-> <<0, 0>>, lon |-> 0],
     [embedding |-> <<0, 1>>, lon |-> 40]}

SelfEmbedding == <<1, 0>>
SelfPosition == GeoPoint(0)

OutsideTopology ==
    UNCHANGED <<cryptoVars, budgetVars, inferenceVars, ledgerVars, nodeVars>>

TUpdatePeer(peer_id, probe) ==
    /\ lastpeer.n < MaxTopoOps
    /\ peers' = update_peer(peers, peer_id, probe.embedding, GeoPoint(probe.lon),
                            SelfEmbedding, SelfPosition, now)
    /\ lastpeer' = [op |-> "update_peer", peer |-> peer_id, primary |-> <<>>,
                    backups |-> <<>>, evicted |-> DOMAIN peers \ DOMAIN peers',
                    n |-> lastpeer.n + 1]
    /\ UNCHANGED now
    /\ OutsideTopology

TMarkUnreachable(peer_id) ==
    /\ lastpeer.n < MaxTopoOps
    /\ peers' = mark_unreachable(peers, peer_id)
    /\ lastpeer' = [op |-> "mark_unreachable", peer |-> peer_id, primary |-> <<>>,
                    backups |-> <<>>, evicted |-> {}, n |-> lastpeer.n + 1]
    /\ UNCHANGED now
    /\ OutsideTopology

TNeighborSets ==
    /\ \E ranked \in Rankings(peers) :
          LET sets == neighbor_sets(peers, ranked)
          IN  lastpeer' = [op |-> "neighbor_sets", peer |-> SelfId,
                           primary |-> sets.primary, backups |-> sets.backups,
                           evicted |-> {}, n |-> lastpeer.n]
    /\ UNCHANGED <<now, peers>>
    /\ OutsideTopology

TAdvance ==
    /\ now < MaxTime
    /\ now' = now + 1
    /\ lastpeer' = [op |-> "advance", peer |-> SelfId, primary |-> <<>>,
                    backups |-> <<>>, evicted |-> {}, n |-> lastpeer.n]
    /\ UNCHANGED peers
    /\ OutsideTopology

InitTopology ==
    /\ now = 0 /\ CryptoInit /\ suite = CryptoSuite(1, 1) /\ BudgetInit
    /\ InferenceInit({<<>>}) /\ TopologyInit /\ LedgerInit /\ NodeInit

NextTopology ==
    \/ \E peer_id \in Ids : \E probe \in ProbeInputs : TUpdatePeer(peer_id, probe)
    \/ \E peer_id \in Ids : TMarkUnreachable(peer_id)
    \/ TNeighborSets
    \/ TAdvance

SpecTopology == InitTopology /\ [][NextTopology]_vars

(***************************************************************************)
(* SpecLedger: up to MaxLedgerOps update_stake calls with any deltas, and  *)
(* prune_stale, at any times                                               *)
(***************************************************************************)
MaxLedgerOps == 3    \* the number of update_stake calls in a run

\* (delta_eth, delta_sol, reputation_delta) in twentieths: the three the
\* node passes, and others that are negative, mixed and large.
StakeDeltas ==
    {<<0, 0, 1>>, <<2, 0, 2>>, <<0, 4, 1>>,
     <<-100, -100, -100>>, <<-1, 1, -30>>, <<3000, 0, 3000>>}

OutsideLedger ==
    UNCHANGED <<cryptoVars, budgetVars, inferenceVars, topologyVars, nodeVars>>

LUpdateStake(peer, d) ==
    /\ lastledger.n < MaxLedgerOps
    /\ ledger' = update_stake(ledger, peer, d[1], d[2], d[3], now)
    /\ lastledger' = [op |-> "update_stake", peer |-> peer, n |-> lastledger.n + 1]
    /\ UNCHANGED now
    /\ OutsideLedger

LPruneStale ==
    /\ ledger' = prune_stale(ledger, now)
    /\ lastledger' = [op |-> "prune_stale", peer |-> SelfId, n |-> lastledger.n]
    /\ UNCHANGED now
    /\ OutsideLedger

LAdvance ==
    /\ now < MaxTime
    /\ now' = now + 1
    /\ UNCHANGED ledgerVars
    /\ OutsideLedger

InitLedger ==
    /\ now = 0 /\ CryptoInit /\ suite = CryptoSuite(1, 1) /\ BudgetInit
    /\ InferenceInit({<<>>}) /\ TopologyInit /\ LedgerInit /\ NodeInit

NextLedger ==
    \/ \E peer \in PeerIds : \E d \in StakeDeltas : LUpdateStake(peer, d)
    \/ LPruneStale
    \/ LAdvance

SpecLedger == InitLedger /\ [][NextLedger]_vars

(***************************************************************************)
(* main.rs: the handlers of the node loop                                  *)
(*                                                                         *)
(* A handler works on a record of the fields of Node it can change, with   *)
(* the publish attempts it made, the steps it completed and the state of   *)
(* the loop.  A `?` on an Err ends the handler and, through Node::run, the *)
(* loop.                                                                   *)
(***************************************************************************)
DenseEvery == 12   \* on_tick: tick_counter % 12 == 0

\* What a publish_signed call can meet: both transports work, the QUIC
\* broadcast returns false, gossipsub's publish returns Err.
PublishOutcomes == {"ok", "quic_failed", "gossip_err"}

\* The outcomes of the publishes of one handler: the QUIC gateway works
\* during the handler or not (quic), and gossipsub's publish returns Err
\* at the fail_at-th attempt (never, when fail_at is 0).
HandlerOutcomes ==
    {[i \in 1..3 |-> IF i = fail_at THEN "gossip_err"
                     ELSE IF quic THEN "ok" ELSE "quic_failed"] :
        quic \in BOOLEAN, fail_at \in 0..3}

Step(st, name) == [st EXCEPT !.steps = Append(@, name)]

\* Node::publish_signed
publish_signed(st, payload, outcome) ==
    LET signed == ConsensusSign(suite, st.ledger, payload)
    IN  [st EXCEPT !.sent = Append(@, [signed |-> signed, outcome |-> outcome]),
                   !.pc = IF outcome = "gossip_err" THEN "exited" ELSE @]

\* Node::maybe_broadcast_dense, at time t.
maybe_broadcast_dense(st, outcome, t) ==
    LET snapshot == tensor_snapshot(st.model)
        bytes == Len(snapshot.values) * F32Bytes
        r == allow_dense(st.bandwidth, bytes, t)
        st1 == [st EXCEPT !.bandwidth = r.budget,
                          !.calls = Append(@, [op |-> "allow_dense", bytes |-> bytes,
                                               ok |-> r.ok])]
    IN  IF r.ok
        THEN publish_signed(st1, DenseSnapshotMsg(snapshot, SelfId), outcome)
        ELSE st1

\* Node::on_tick, at time t, with the incremented tick counter tc, the
\* outcomes o of its (up to) three publishes and the noise of the train step.
on_tick_TrainFirst(st, tc, o, noise, t) ==
    LET s0 == [st EXCEPT !.model = local_train_step(@, noise)]
        s1 == publish_signed(s0, Heartbeat(SelfId, tensor_hash(s0.model)), o[1])
    IN  IF s1.pc # "running" THEN s1
        ELSE
    LET s2 == publish_signed(Step(s1, "heartbeat"),
                             SimilarityProbe(embedding(s1.model), SelfPosition, SelfId),
                             o[2])
    IN  IF s2.pc # "running" THEN s2
        ELSE
    LET s3 == Step(Step(s2, "probe"), "local_train_step")
        s4 == Step([s3 EXCEPT !.ledger = prune_stale(@, t)], "prune_stale")
        s5 == IF tc % DenseEvery = 0 THEN maybe_broadcast_dense(s4, o[3], t) ELSE s4
    IN  IF s5.pc # "running" THEN s5
        ELSE Step(Step(s5, "maybe_broadcast_dense"), "check_topology_health")

\* on_tick with the train step between the heartbeat and the probe.
on_tick_TrainBetween(st, tc, o, noise, t) ==
    LET s1 == publish_signed(st, Heartbeat(SelfId, tensor_hash(st.model)), o[1])
    IN  IF s1.pc # "running" THEN s1
        ELSE
    LET s1t == [Step(s1, "heartbeat") EXCEPT !.model = local_train_step(@, noise)]
        s2 == publish_signed(s1t,
                             SimilarityProbe(embedding(s1t.model), SelfPosition, SelfId),
                             o[2])
    IN  IF s2.pc # "running" THEN s2
        ELSE
    LET s3 == Step(Step(s2, "probe"), "local_train_step")
        s4 == Step([s3 EXCEPT !.ledger = prune_stale(@, t)], "prune_stale")
        s5 == IF tc % DenseEvery = 0 THEN maybe_broadcast_dense(s4, o[3], t) ELSE s4
    IN  IF s5.pc # "running" THEN s5
        ELSE Step(Step(s5, "maybe_broadcast_dense"), "check_topology_health")

on_tick(st, tc, o, noise, t) ==
    LET s1 == publish_signed(st, Heartbeat(SelfId, tensor_hash(st.model)), o[1])
    IN  IF s1.pc # "running" THEN s1
        ELSE
    LET s2 == publish_signed(Step(s1, "heartbeat"),
                             SimilarityProbe(embedding(s1.model), SelfPosition, SelfId),
                             o[2])
    IN  IF s2.pc # "running" THEN s2
        ELSE
    LET s3 == Step([Step(s2, "probe") EXCEPT !.model = local_train_step(@, noise)],
                   "local_train_step")
        s4 == Step([s3 EXCEPT !.ledger = prune_stale(@, t)], "prune_stale")
        s5 == IF tc % DenseEvery = 0 THEN maybe_broadcast_dense(s4, o[3], t) ELSE s4
    IN  IF s5.pc # "running" THEN s5
        ELSE Step(Step(s5, "maybe_broadcast_dense"), "check_topology_health")

\* reply_to_probe, undoing the grant and the update when the publish fails.
reply_to_probe_RollsBack(st, sender, ranked, outcome, checked, t) ==
    IF sender \in Range(select_neighbors(st.peers, ranked))
    THEN LET a == allow_sparse(st.bandwidth, t)
             st1 == [st EXCEPT !.bandwidth = a.budget,
                               !.calls = Append(@, [op |-> "allow_sparse", bytes |-> 0,
                                                    ok |-> a.ok])]
         IN  IF a.ok
             THEN LET r == make_sparse_update(st1.model, SparseK, checked)
                      done == publish_signed([st1 EXCEPT !.model = r.state],
                                             SparseUpdateMsg(r.update, SelfId), outcome)
                  IN  IF r.panicked
                      THEN [st1 EXCEPT !.model = r.state, !.pc = "panicked"]
                      ELSE IF done.pc = "exited"
                           THEN [done EXCEPT !.model = st.model, !.bandwidth = st.bandwidth]
                           ELSE done
             ELSE st1
    ELSE [st EXCEPT !.peers = mark_unreachable(@, sender)]

\* The SimilarityProbe arm of handle_signed_message after update_peer:
\* should_send_sparse_update, allow_sparse_update, make_sparse_update(16)
\* and the publish.  ranked is the order neighbor_sets sorted the peers in.
reply_to_probe(st, sender, ranked, outcome, checked, t) ==
    IF sender \in Range(select_neighbors(st.peers, ranked))
    THEN LET a == allow_sparse(st.bandwidth, t)
             st1 == [st EXCEPT !.bandwidth = a.budget,
                               !.calls = Append(@, [op |-> "allow_sparse", bytes |-> 0,
                                                    ok |-> a.ok])]
         IN  IF a.ok
             THEN LET r == make_sparse_update(st1.model, SparseK, checked)
                  IN  IF r.panicked
                      THEN [st1 EXCEPT !.model = r.state, !.pc = "panicked"]
                      ELSE publish_signed([st1 EXCEPT !.model = r.state],
                                          SparseUpdateMsg(r.update, SelfId), outcome)
             ELSE st1
    ELSE [st EXCEPT !.peers = mark_unreachable(@, sender)]

\* Node::handle_signed_message, at time t: the states it can end in.
handle_signed_message(st, signed, outcome, checked, t) ==
    LET p == signed.payload
    IN  CASE p.type = "Heartbeat" ->
                {[st EXCEPT !.ledger = update_stake(@, p.peer, 0, 0, 1, t)]}
          [] p.type = "SimilarityProbe" ->
                LET st1 == [st EXCEPT !.peers =
                               update_peer(@, p.sender, p.embedding, p.position,
                                           embedding(st.model), SelfPosition, t)]
                IN  {reply_to_probe(st1, p.sender, ranked, outcome, checked, t) :
                        ranked \in Rankings(st1.peers)}
          [] p.type = "SparseUpdate" ->
                {[st EXCEPT !.model = apply_sparse_update(@, p.update),
                            !.ledger = update_stake(@, p.sender, 2, 0, 2, t)]}
          [] p.type = "DenseSnapshot" ->
                {[st EXCEPT !.model = apply_dense_snapshot(@, p.snapshot),
                            !.ledger = update_stake(@, p.sender, 0, 4, 1, t)]}

\* Node::handle_network_event, at time t: the states it can end in.
handle_network_event(st, ev, outcome, checked, t) ==
    IF ev.kind = "gossip" /\ ev.decodes
    THEN IF ConsensusVerify(suite, ev.signed)
         THEN handle_signed_message(st, ev.signed, outcome, checked, t)
         ELSE {st}
    ELSE {st}

(***************************************************************************)
(* Spec: the node loop.  Node::run takes ticks and swarm events one at a   *)
(* time and runs the handler of each to its end                            *)
(***************************************************************************)
MaxTicks == 12     \* the number of ticks in a run
MaxEvents == 2     \* the number of swarm events in a run

NodeParams == <<1, 2>>
NodeNoises == {<<1, -1>>}

\* A suite with other keys than this node's.
ForeignSuite ==
    CHOOSE other \in Suites :
        other.eth.verifying_key # suite.eth.verifying_key /\ other.sol.pubkey # suite.sol.pubkey

\* The payloads remote peers send.
NodePayloads ==
    {Heartbeat(1, TensorSnapshotHash(SampleSnapshot)),
     SimilarityProbe(<<1, 2>>, GeoPoint(0), 1),
     SimilarityProbe(<<-1, 0>>, GeoPoint(40), 2),
     SparseUpdateMsg([indices |-> <<0>>, values |-> <<3>>, version |-> 2], 1),
     DenseSnapshotMsg(TensorSnapshotNew(<<3, 0>>, 3), 2)}

\* The payloads signed with foreign keys, the payload that is signed before
\* it is altered, and what it is altered to.
ForeignPayloads == {DenseSnapshotMsg(TensorSnapshotNew(<<3, 0>>, 3), 2)}
SignedPayload == Heartbeat(1, TensorSnapshotHash(SampleSnapshot))
AlteredPayloads ==
    {Heartbeat(2, TensorSnapshotHash(SampleSnapshot)),
     SparseUpdateMsg([indices |-> <<0>>, values |-> <<3>>, version |-> 2], 1)}

Gossip(signed) == [kind |-> "gossip", decodes |-> TRUE, signed |-> signed]

\* The swarm events: an mDNS discovery, gossip whose bytes are no
\* SignedGossip, and each payload signed with this node's keys, signed with
\* foreign keys, and signed with this node's keys and altered afterwards.
Events ==
    {[kind |-> "mdns", decodes |-> FALSE, signed |-> <<>>],
     [kind |-> "gossip", decodes |-> FALSE, signed |-> <<>>]}
    \cup {Gossip(ConsensusSign(suite, <<>>, x)) : x \in NodePayloads}
    \cup {Gossip(ConsensusSign(ForeignSuite, <<>>, x)) : x \in ForeignPayloads}
    \cup {Gossip([ConsensusSign(suite, <<>>, SignedPayload) EXCEPT !.payload = y]) :
             y \in AlteredPayloads}

OutsideNode == UNCHANGED <<suite, cmsg, corigin, cverdict, grants, lastcall,
                           update, trail, lastpeer, lastledger, loop, gateway, net>>

\* The fields a handler starts from.
Fields ==
    [model |-> model, ledger |-> ledger, peers |-> peers, bandwidth |-> bandwidth,
     sent |-> <<>>, steps |-> <<>>, calls |-> <<>>, pc |-> "running"]

Becomes(st) ==
    /\ model' = st.model
    /\ ledger' = st.ledger
    /\ peers' = st.peers
    /\ bandwidth' = st.bandwidth
    /\ sent' = st.sent
    /\ steps' = st.steps
    /\ calls' = st.calls
    /\ pc' = st.pc

\* The ticker branch of the select! in Node::run.
NTick(o, noise) ==
    /\ pc = "running"
    /\ tick_counter < MaxTicks
    /\ tick_counter' = tick_counter + 1
    /\ Becomes(on_tick(Fields, tick_counter + 1, o, noise, now))
    /\ rx' = [kind |-> "tick", ev |-> <<>>, n |-> rx.n]
    /\ UNCHANGED now
    /\ OutsideNode

\* The swarm branch of the select! in Node::run.
NEvent(ev, outcome, checked) ==
    /\ pc = "running"
    /\ rx.n < MaxEvents
    /\ \E st \in handle_network_event(Fields, ev, outcome, checked, now) : Becomes(st)
    /\ rx' = [kind |-> ev.kind, ev |-> ev, n |-> rx.n + 1]
    /\ UNCHANGED <<now, tick_counter>>
    /\ OutsideNode

\* Time passes while the loop waits in the select!.
NAdvance ==
    /\ pc = "running"
    /\ now < MaxTime
    /\ now' = now + 1
    /\ UNCHANGED <<model, ledger, peers, bandwidth, nodeVars>>
    /\ OutsideNode

Init ==
    /\ now = 0 /\ CryptoInit /\ suite = CryptoSuite(1, 2) /\ BudgetInit
    /\ InferenceInit({NodeParams}) /\ TopologyInit /\ LedgerInit /\ NodeInit

Next ==
    \/ \E o \in HandlerOutcomes : \E noise \in NodeNoises : NTick(o, noise)
    \/ \E ev \in Events : \E outcome \in PublishOutcomes : \E checked \in BOOLEAN :
          NEvent(ev, outcome, checked)
    \/ NAdvance

Spec == Init /\ [][Next]_vars

(***************************************************************************)
(* SpecProbe: the node answering similarity probes.  The swarm events are  *)
(* SimilarityProbe messages, handled by Node::handle_network_event one at  *)
(* a time, while time passes between them                                  *)
(***************************************************************************)
MaxProbes == 4     \* the number of probes in a run

\* The probes remote peers send: peer 1 from nearby with an embedding like
\* this node's, peer 2 from nearby with the same or a less similar
\* embedding, or from far away with an unlike one.
ProbePayloads ==
    {SimilarityProbe(<<1, 2>>, GeoPoint(0), 1),
     SimilarityProbe(<<1, 2>>, GeoPoint(0), 2),
     SimilarityProbe(<<2, 1>>, GeoPoint(0), 2),
     SimilarityProbe(<<-1, 0>>, GeoPoint(40), 2)}

\* Each probe signed with this node's keys, and one signed with foreign keys.
ProbeEvents ==
    {Gossip(ConsensusSign(suite, <<>>, x)) : x \in ProbePayloads}
    \cup {Gossip(ConsensusSign(ForeignSuite, <<>>, SimilarityProbe(<<1, 2>>, GeoPoint(0), 1)))}

\* The swarm branch of the select! in Node::run, for a probe.
PProbe(ev, outcome, checked) ==
    /\ pc = "running"
    /\ rx.n < MaxProbes
    /\ \E st \in handle_network_event(Fields, ev, outcome, checked, now) : Becomes(st)
    /\ rx' = [kind |-> ev.kind, ev |-> ev, n |-> rx.n + 1]
    /\ UNCHANGED <<now, tick_counter>>
    /\ OutsideNode

\* Time passes while the loop waits in the select!.
PAdvance ==
    /\ pc = "running"
    /\ now < MaxTime
    /\ now' = now + 1
    /\ UNCHANGED <<model, ledger, peers, bandwidth, nodeVars>>
    /\ OutsideNode

InitProbe ==
    /\ now = 0 /\ CryptoInit /\ suite = CryptoSuite(1, 2) /\ BudgetInit
    /\ InferenceInit({NodeParams}) /\ TopologyInit /\ LedgerInit /\ NodeInit

NextProbe ==
    \/ \E ev \in ProbeEvents : \E outcome \in PublishOutcomes : \E checked \in BOOLEAN :
          PProbe(ev, outcome, checked)
    \/ PAdvance

SpecProbe == InitProbe /\ [][NextProbe]_vars

(***************************************************************************)
(* SpecGates: the node ticking and answering probes under its bandwidth    *)
(* budget, with a model whose snapshot fits the dense budget of a window   *)
(* (dimension 2) or exceeds it (dimension 3)                               *)
(***************************************************************************)
\* The parameters load_or_random yields.
GateParams == {<<1, 2>>, <<1, 2, 1>>}

\* The rng's draws of a train step on a model of dimension d.
GateNoises(d) == {[i \in 1..d |-> IF i % 2 = 1 THEN 1 ELSE -1]}

\* The probes of one remote peer, nearby and with an embedding like this
\* node's, so that it is primary and every probe asks the sparse budget.
GateEvents == {Gossip(ConsensusSign(suite, <<>>, SimilarityProbe(<<1, 2>>, GeoPoint(0), 1)))}

InitGates ==
    /\ now = 0 /\ CryptoInit /\ suite = CryptoSuite(1, 2) /\ BudgetInit
    /\ InferenceInit(GateParams) /\ TopologyInit /\ LedgerInit /\ NodeInit

NextGates ==
    \/ \E o \in HandlerOutcomes : \E noise \in GateNoises(Dim(model)) : NTick(o, noise)
    \/ \E ev \in GateEvents : \E outcome \in PublishOutcomes : \E checked \in BOOLEAN :
          PProbe(ev, outcome, checked)
    \/ PAdvance

SpecGates == InitGates /\ [][NextGates]_vars

(***************************************************************************)
(* SpecQuic: QuicGateway's pool of sessions.  The accept task pushes a      *)
(* session whenever a peer connects, also while broadcast is suspended at  *)
(* an await of its pass; broadcast takes a snapshot of the pool, tries     *)
(* each session of the snapshot in turn and then removes the dead ones     *)
(* under one write guard.  Sessions are numbered in the order accepted.    *)
(***************************************************************************)
MaxSessions == 4    \* the number of sessions accepted in a run

\* Vec::swap_remove(idx): the last element takes the place of the removed
\* one; an index outside the vector panics.
swap_remove(v, idx) ==
    IF idx >= Len(v) THEN [vec |-> v, panicked |-> TRUE]
    ELSE [vec |-> [i \in 1..(Len(v) - 1) |-> IF i = idx + 1 THEN v[Len(v)] ELSE v[i]],
          panicked |-> FALSE]

\* dead_indices.into_iter().rev()
RemovalOrder_Ascending(dead_indices) == dead_indices

RemovalOrder(dead_indices) ==
    [i \in 1..Len(dead_indices) |-> dead_indices[Len(dead_indices) + 1 - i]]

\* The loop of swap_remove over the dead indices.
RECURSIVE RemoveLoop(_, _)
RemoveLoop(v, order) ==
    IF order = <<>> THEN [vec |-> v, panicked |-> FALSE]
    ELSE LET r == swap_remove(v, Head(order))
         IN  IF r.panicked THEN r ELSE RemoveLoop(r.vec, Tail(order))

OutsideQuic ==
    UNCHANGED <<now, cryptoVars, budgetVars, inferenceVars, topologyVars, ledgerVars,
                tick_counter, pc, rx, sent, steps, calls, loop, net>>

\* The accept task (or connect): a new session is pushed to the pool.
QAccept ==
    /\ ~gateway.panicked
    /\ gateway.accepted < MaxSessions
    /\ gateway' = [gateway EXCEPT
                      !.accepted = @ + 1,
                      !.connections = Append(@, gateway.accepted + 1),
                      !.pushed = IF gateway.pc = "pass"
                                 THEN @ \cup {gateway.accepted + 1} ELSE @]
    /\ OutsideQuic

\* broadcast up to the end of the snapshot: the payload serializes or not,
\* and the pool is cloned with its indices under a read guard.
QSnapshot(serializes) ==
    /\ ~gateway.panicked
    /\ gateway.pc = "idle"
    /\ gateway' =
          IF serializes
          THEN [gateway EXCEPT
                   !.pc = "pass",
                   !.entries = [i \in 1..Len(gateway.connections) |->
                                   [idx |-> i - 1, conn |-> gateway.connections[i]]],
                   !.dead_indices = <<>>, !.success = FALSE,
                   !.opened = {}, !.failed = {}, !.pushed = {},
                   !.returned = "none"]
          ELSE [gateway EXCEPT !.returned = "serialize_err"]
    /\ OutsideQuic

\* One round of the pass: open_uni on the next session of the snapshot
\* fails, or the stream opens and the write and finish succeed or not.
QOpen(outcome) ==
    /\ gateway.pc = "pass"
    /\ gateway.entries # <<>>
    /\ LET e == Head(gateway.entries)
       IN  gateway' =
              [gateway EXCEPT
                  !.entries = Tail(@),
                  !.success = @ \/ outcome = "sent",
                  !.dead_indices = IF outcome = "open_failed" THEN Append(@, e.idx) ELSE @,
                  !.failed = IF outcome = "open_failed" THEN @ \cup {e.conn} ELSE @,
                  !.opened = IF outcome # "open_failed" THEN @ \cup {e.conn} ELSE @]
    /\ OutsideQuic

\* The end of broadcast: the dead sessions are removed under a write guard.
QCompact ==
    /\ gateway.pc = "pass"
    /\ gateway.entries = <<>>
    /\ LET r == RemoveLoop(gateway.connections, RemovalOrder(gateway.dead_indices))
       IN  gateway' = [gateway EXCEPT
                          !.pc = "idle",
                          !.connections = r.vec,
                          !.panicked = r.panicked,
                          !.returned = IF r.panicked THEN "panic"
                                       ELSE IF gateway.success THEN "true" ELSE "false"]
    /\ OutsideQuic

InitQuic ==
    /\ now = 0 /\ CryptoInit /\ suite = CryptoSuite(1, 1) /\ BudgetInit
    /\ InferenceInit({<<>>}) /\ TopologyInit /\ LedgerInit /\ NodeInit

NextQuic ==
    \/ QAccept
    \/ \E serializes \in BOOLEAN : QSnapshot(serializes)
    \/ \E outcome \in {"sent", "write_failed", "open_failed"} : QOpen(outcome)
    \/ QCompact

SpecQuic == InitQuic /\ [][NextQuic]_vars

(***************************************************************************)
(* SpecSystem: two nodes on one gossip topic.  The variables of the node   *)
(* hold the node whose loop takes the next step and net.parked holds the   *)
(* other one; SysSwitch exchanges them, so both run the same handlers,     *)
(* each with its own suite.  What a node publishes reaches the inbox of    *)
(* the other node, never its own, in the order published, and is handled   *)
(* there at any later time or never.  Each node writes SelfId for itself   *)
(* in its payloads; the ids play no part in the verification.              *)
(***************************************************************************)
MaxSysTicks == 2    \* the number of ticks of each node in a run

\* The parameters load_or_random yields at the second node.
OtherParams == <<2, 1>>

\* The messages of a handler that gossipsub accepted for the topic.
Published(st) ==
    LET accepted == SelectSeq(st.sent, LAMBDA e : e.outcome # "gossip_err")
    IN  [i \in 1..Len(accepted) |-> accepted[i].signed]

OutsideSystem == UNCHANGED <<cmsg, corigin, cverdict, grants, lastcall,
                             update, trail, lastpeer, lastledger, loop, gateway>>

\* What the other node receives of the handler that ended in st.
Forwarded(st) ==
    IF net.parked = <<>> THEN net.parked
    ELSE [net.parked EXCEPT !.inbox = @ \o Published(st)]

\* Node::new at the second node, with keys of its own.
SysJoin ==
    /\ net.parked = <<>>
    /\ net' = [net EXCEPT !.parked =
                  [suite |-> ForeignSuite, model |-> InferenceNew(OtherParams),
                   ledger |-> <<>>, peers |-> <<>>,
                   bandwidth |-> BandwidthBudgetNew(now),
                   tick_counter |-> 0, pc |-> "running", inbox |-> <<>>]]
    /\ UNCHANGED <<now, suite, model, ledger, peers, bandwidth, tick_counter, pc,
                   rx, sent, steps, calls>>
    /\ OutsideSystem

\* The other node is the one to take the next step.
SysSwitch ==
    /\ net.parked # <<>>
    /\ suite' = net.parked.suite
    /\ model' = net.parked.model
    /\ ledger' = net.parked.ledger
    /\ peers' = net.parked.peers
    /\ bandwidth' = net.parked.bandwidth
    /\ tick_counter' = net.parked.tick_counter
    /\ pc' = net.parked.pc
    /\ net' = [inbox |-> net.parked.inbox,
               parked |-> [suite |-> suite, model |-> model, ledger |-> ledger,
                           peers |-> peers, bandwidth |-> bandwidth,
                           tick_counter |-> tick_counter, pc |-> pc,
                           inbox |-> net.inbox]]
    /\ UNCHANGED <<now, rx, sent, steps, calls>>
    /\ OutsideSystem

\* The ticker branch of the select! in Node::run.
SysTick(o, noise) ==
    /\ pc = "running"
    /\ tick_counter < MaxSysTicks
    /\ tick_counter' = tick_counter + 1
    /\ LET st == on_tick(Fields, tick_counter + 1, o, noise, now)
       IN  /\ Becomes(st)
           /\ net' = [net EXCEPT !.parked = Forwarded(st)]
    /\ rx' = [kind |-> "tick", ev |-> <<>>, n |-> rx.n]
    /\ UNCHANGED <<now, suite>>
    /\ OutsideSystem

\* The swarm branch of the select! in Node::run, for the next message of
\* the inbox.
SysReceive(outcome, checked) ==
    /\ pc = "running"
    /\ net.inbox # <<>>
    /\ \E st \in handle_network_event(Fields, Gossip(Head(net.inbox)), outcome, checked, now) :
          /\ Becomes(st)
          /\ net' = [inbox |-> Tail(net.inbox), parked |-> Forwarded(st)]
    /\ rx' = [kind |-> "gossip", ev |-> Gossip(Head(net.inbox)), n |-> rx.n + 1]
    /\ UNCHANGED <<now, suite, tick_counter>>
    /\ OutsideSystem

\* Time passes.
SysAdvance ==
    /\ now < MaxTime
    /\ now' = now + 1
    /\ UNCHANGED <<suite, model, ledger, peers, bandwidth, nodeVars>>
    /\ OutsideSystem

InitSystem ==
    /\ now = 0 /\ CryptoInit /\ suite = CryptoSuite(1, 2) /\ BudgetInit
    /\ InferenceInit({NodeParams}) /\ TopologyInit /\ LedgerInit /\ NodeInit

NextSystem ==
    \/ SysJoin
    \/ SysSwitch
    \/ \E o \in HandlerOutcomes : \E noise \in NodeNoises : SysTick(o, noise)
    \/ \E outcome \in PublishOutcomes : \E checked \in BOOLEAN : SysReceive(outcome, checked)
    \/ SysAdvance

SpecSystem == InitSystem /\ [][NextSystem]_vars

(***************************************************************************)
(* SpecRun: the scheduling of Node::run.  The gossip layer delivers        *)
(* messages into the swarm's stream and the ticker becomes ready at any    *)
(* time, also while a handler is suspended at an await; the loop takes one *)
(* ready branch of the select! and awaits its handler inline.  A handler   *)
(* is the number of publish_signed calls it still has to get through: each *)
(* has a synchronous gossip publish, which can return Err, and one await,  *)
(* on the realtime broadcast.                                              *)
(***************************************************************************)
MaxMsgs == 3       \* the number of messages the gossip layer delivers in a run
MaxDue == 2        \* the number of times the ticker fires in a run

OutsideRun ==
    UNCHANGED <<now, cryptoVars, budgetVars, inferenceVars, topologyVars, ledgerVars,
                tick_counter, pc, rx, sent, steps, calls, gateway, net>>

\* The gossip layer delivers its next message: the swarm's stream holds it.
RDeliver ==
    /\ loop.delivered < MaxMsgs
    /\ loop' = [loop EXCEPT !.delivered = @ + 1, !.inbox = Append(@, loop.delivered + 1)]
    /\ OutsideRun

\* The interval of the ticker elapses: ticker.tick() is ready.
RTimer ==
    /\ loop.fired < MaxDue
    /\ loop' = [loop EXCEPT !.due = @ + 1, !.fired = @ + 1]
    /\ OutsideRun

\* A handler (what: 0 for a tick, k for the k-th message delivered) starts
\* with `publishes` publish_signed calls ahead.  It runs to
\* its first await; without one it ends in the same poll.  fails: the gossip
\* publish of its first publish_signed returns Err, and `?` ends the loop.
Started(lp, what, publishes, fails) ==
    IF publishes = 0
    THEN [lp EXCEPT !.log = @ \o <<[at |-> "start", what |-> what],
                                   [at |-> "end", what |-> what]>>]
    ELSE IF fails
    THEN [lp EXCEPT !.log = @ \o <<[at |-> "start", what |-> what],
                                   [at |-> "end", what |-> what]>>,
                    !.exited = TRUE]
    ELSE [lp EXCEPT !.log = Append(@, [at |-> "start", what |-> what]),
                    !.active = Append(@, [what |-> what, publishes |-> publishes])]

\* The swarm branch of the select!: the loop is at the select! (it awaits no
\* handler), takes the next event of the stream and runs its handler.
RSelectEvent_Spawned(publishes, fails) ==
    /\ ~loop.exited
    /\ loop.inbox # <<>>
    /\ loop' = Started([loop EXCEPT !.inbox = Tail(@)], Head(loop.inbox), publishes, fails)
    /\ OutsideRun

RSelectEvent(publishes, fails) ==
    /\ ~loop.exited
    /\ loop.active = <<>>
    /\ loop.inbox # <<>>
    /\ loop' = Started([loop EXCEPT !.inbox = Tail(@)], Head(loop.inbox), publishes, fails)
    /\ OutsideRun

\* The ticker branch of the select!.
RSelectTick(publishes, fails) ==
    /\ ~loop.exited
    /\ loop.active = <<>>
    /\ loop.due > 0
    /\ loop' = Started([loop EXCEPT !.due = @ - 1], 0, publishes, fails)
    /\ OutsideRun

\* The await of a suspended handler completes (broadcast_realtime returned):
\* the handler goes on to its next publish_signed, whose gossip publish can
\* fail, or to its end.
RResume(i, fails) ==
    /\ ~loop.exited
    /\ i \in 1..Len(loop.active)
    /\ LET h == loop.active[i]
           rest == [j \in 1..(Len(loop.active) - 1) |->
                       IF j < i THEN loop.active[j] ELSE loop.active[j + 1]]
       IN  IF h.publishes = 1
           THEN /\ ~fails
                /\ loop' = [loop EXCEPT !.active = rest,
                                        !.log = Append(@, [at |-> "end", what |-> h.what])]
           ELSE IF fails
           THEN loop' = [loop EXCEPT !.active = rest, !.exited = TRUE,
                                     !.log = Append(@, [at |-> "end", what |-> h.what])]
           ELSE loop' = [loop EXCEPT !.active[i].publishes = @ - 1]
    /\ OutsideRun

InitRun ==
    /\ now = 0 /\ CryptoInit /\ suite = CryptoSuite(1, 1) /\ BudgetInit
    /\ InferenceInit({<<>>}) /\ TopologyInit /\ LedgerInit /\ NodeInit

NextRun ==
    \/ RDeliver
    \/ RTimer
    \/ \E publishes \in 0..1 : \E fails \in BOOLEAN : RSelectEvent(publishes, fails)
    \/ \E publishes \in 2..3 : \E fails \in BOOLEAN : RSelectTick(publishes, fails)
    \/ \E i \in 1..2 : \E fails \in BOOLEAN : RResume(i, fails)

SpecRun == InitRun /\ [][NextRun]_vars

(***************************************************************************)
(* Claims about the crypto suite (SpecCrypto)                              *)
(***************************************************************************)
\* Both signatures of cmsg validate under this node's public keys.
BothSignaturesValidate ==
    LET m == cmsg[1]
        bytes == Serialize(m.payload)
    IN  /\ m.signature.eth.signature.decodes
        /\ RawVerify("secp256k1", suite.eth.verifying_key, keccak(bytes),
                     m.signature.eth.signature.raw)
        /\ m.signature.sol.signature.decodes
        /\ RawVerify("ed25519", suite.sol.keypair, bytes, m.signature.sol.signature.raw)

\* A bundle as another suite produced it is rejected, whatever the payload.
ForeignBundleRejected ==
    (cverdict # "none" /\ corigin.signer # suite /\ corigin.bundle_intact)
        => cverdict = "false"

\* C2, as stated: verify returns true only if both signatures validate and
\* the bundle's address and pubkey EQUAL this node's own; a bundle produced
\* by a suite with different keys is rejected for every payload.
C2_VerifyOnlyOwnExact ==
    /\ cverdict = "true" =>
          /\ BothSignaturesValidate
          /\ cmsg[1].signature.eth.address = suite.eth.address
          /\ cmsg[1].signature.sol.pubkey = suite.sol.pubkey
    /\ ForeignBundleRejected

\* C2, amended: verify returns true only if both signatures validate, the
\* bundle's address equals this node's own up to the case of its letters
\* and the bundle's pubkey equals this node's own; a bundle produced by a
\* suite with different keys is rejected for every payload.
C2_VerifyOnlyOwn ==
    /\ cverdict = "true" =>
          /\ BothSignaturesValidate
          /\ ToLowercase(cmsg[1].signature.eth.address) = ToLowercase(suite.eth.address)
          /\ cmsg[1].signature.sol.pubkey = suite.sol.pubkey
    /\ ForeignBundleRejected

\* C2's case: a bundle whose address is this node's own in upper case has
\* been verified and accepted.
C2_Witness ==
    /\ cverdict = "true"
    /\ cmsg[1].signature.eth.address.upper
    /\ corigin.how = "tampered"

\* C3: the SignedGossip that this engine's sign returned, verified by the
\* same engine, yields true, for every payload variant.
C3_SignVerifyRoundTrip ==
    (corigin.how = "signed" /\ cverdict # "none") => cverdict = "true"

\* C3's case: a SparseUpdate payload signed and then verified by this node.
C3_Witness ==
    /\ corigin.how = "signed"
    /\ cverdict = "true"
    /\ cmsg[1].payload.type = "SparseUpdate"

(***************************************************************************)
(* Claims about the bandwidth budget (SpecBandwidth)                       *)
(***************************************************************************)
RecentSparse == SumTo([d \in 1..WindowSecs |-> grants.recent[d - 1].sparse], WindowSecs)
RecentDense == SumTo([d \in 1..WindowSecs |-> grants.recent[d - 1].dense], WindowSecs)

\* C4, as stated: in any time span of length window_secs at most
\* sparse_per_window allow_sparse calls return true and the granted
\* allow_dense bytes sum to at most dense_bytes_per_window.
C4_CapInAnySpan ==
    /\ RecentSparse <= SparsePerWindow
    /\ RecentDense <= DenseBytesPerWindow

\* C4, amended: between two resets of the budget's window (a reset happens
\* on the first call made window_secs or more after window_start) at most
\* sparse_per_window allow_sparse calls return true and the granted
\* allow_dense bytes sum to at most dense_bytes_per_window; a time span of
\* length window_secs, which can straddle a reset, holds at most twice that.
C4_CapPerWindow ==
    /\ grants.window.sparse <= SparsePerWindow
    /\ grants.window.dense <= DenseBytesPerWindow
    /\ RecentSparse <= 2 * SparsePerWindow
    /\ RecentDense <= 2 * DenseBytesPerWindow

\* C4's case: the sparse cap is used up in a window that a reset started,
\* and more was granted within the last window_secs than the cap.
C4_Witness ==
    /\ bandwidth.window_start > 0
    /\ grants.window.sparse = SparsePerWindow
    /\ RecentSparse > SparsePerWindow
    /\ lastcall = [op |-> "allow_sparse", ok |-> FALSE, bytes |-> 0]

(***************************************************************************)
(* Claims about the inference engine (SpecInference)                       *)
(***************************************************************************)
StrictlyAscending(seq) == \A i \in 1..(Len(seq) - 1) : seq[i] < seq[i + 1]

\* C6: the indices of the SparseUpdate that make_sparse_update(k) returned,
\* decoded by decompress_indices, are strictly ascending, lie in [0, D) and
\* are exactly the positions that were selected; the encoding never
\* subtracts a larger index from a smaller one (so the call never panics on
\* that subtraction either).
C6_DecodedIndicesAscending ==
    /\ trail.op # "panic"
    /\ trail.op = "make_sparse_update" =>
          LET decoded == decompress_indices(update[1].indices)
          IN  /\ StrictlyAscending(decoded)
              /\ \A i \in 1..Len(decoded) : 0 <= decoded[i] /\ decoded[i] < Dim(model)
              /\ Range(decoded) = Range(trail.emitted)
              /\ ~trail.underflow

\* C7: no operation of the engine makes the version smaller than it was,
\* and a bump at the maximum leaves the maximum.
C7_VersionNeverDecreases == [][model'.version >= model.version]_vars

\* C7's case: local_train_step bumped a version that was at u64::MAX.
C7_Witness ==
    /\ trail.op = "local_train_step"
    /\ trail.version_before = U64Max
    /\ model.version = U64Max

(***************************************************************************)
(* Claims about the topology selector (SpecTopology)                       *)
(***************************************************************************)
BelowMin(ps) == {p \in DOMAIN ps : ps[p].score < MinScore}
Admissible(ps) == {p \in DOMAIN ps : ps[p].score >= MinScore}
DistinctScores(ps) == \A p, q \in DOMAIN ps : p # q => ps[p].score # ps[q].score

\* C8: a peer whose stored score is below min_score is in neither list that
\* neighbor_sets returns, for every peer map and every order the sort can
\* produce.
C8_BelowMinNeverListed ==
    /\ \A ranked \in Rankings(peers) :
          LET sets == neighbor_sets(peers, ranked)
          IN  /\ Range(sets.primary) \cap BelowMin(peers) = {}
              /\ Range(sets.backups) \cap BelowMin(peers) = {}
              /\ Range(select_neighbors(peers, ranked)) \cap BelowMin(peers) = {}
    /\ lastpeer.op = "neighbor_sets" =>
          (Range(lastpeer.primary) \cup Range(lastpeer.backups)) \cap BelowMin(peers) = {}

\* C8's case: neighbor_sets ran on a map that holds a peer below min_score
\* beside listed ones.
C8_Witness ==
    /\ lastpeer.op = "neighbor_sets"
    /\ BelowMin(peers) # {}
    /\ lastpeer.primary # <<>>
    /\ lastpeer.backups # <<>>

\* The admissible peer that exactly r admissible peers outscore.
Ranked(ps, r) ==
    CHOOSE p \in Admissible(ps) :
        Cardinality({q \in Admissible(ps) : ps[q].score > ps[p].score}) = r

ExpectedPrimary(ps) ==
    [i \in 1..Min(Cardinality(Admissible(ps)), MaxNeighbors) |-> Ranked(ps, i - 1)]

ExpectedBackups(ps) ==
    [i \in 1..Min(Max(Cardinality(Admissible(ps)) - MaxNeighbors, 0), FailoverPool) |->
        Ranked(ps, MaxNeighbors + i - 1)]

IsUpdatePeer == lastpeer'.op = "update_peer" /\ lastpeer'.n = lastpeer.n + 1

\* The peers last updated peer_stale_secs + 1 s ago or longer.
IdleTooLong == {p \in DOMAIN peers : peers[p].last_seen + PeerStaleSecs + 1 <= now}

\* C10, as stated: a peer updated peer_stale_secs + 1 s ago or longer is
\* evicted by the next update_peer call, for ANY peer.
C10_NextUpdateEvicts ==
    [][IsUpdatePeer => \A p \in IdleTooLong : p \notin DOMAIN peers']_vars

\* C10, amended: a peer updated peer_stale_secs + 1 s ago or longer is
\* evicted by the next update_peer call for any OTHER peer; a call for the
\* peer itself replaces its profile and keeps it, last seen now.
C10_NextUpdateOfOtherEvicts ==
    [][IsUpdatePeer =>
         \A p \in IdleTooLong :
            IF p = lastpeer'.peer
            THEN p \in DOMAIN peers' /\ peers'[p].last_seen = now
            ELSE p \notin DOMAIN peers']_vars

\* C10's case: an update_peer call evicted a peer other than the one it
\* was for.
C10_Witness ==
    /\ lastpeer.op = "update_peer"
    /\ lastpeer.evicted \ {lastpeer.peer} # {}

(***************************************************************************)
(* Claims about the node loop (Spec)                                       *)
(***************************************************************************)
\* The bytes of a gossip event do not decode as a SignedGossip, or the suite
\* rejects the signature bundle for the serialized payload.
Dropped(ev) ==
    /\ ev.kind = "gossip"
    /\ \/ ~ev.decodes
       \/ ~CryptoVerify(suite, Serialize(ev.signed.payload), ev.signed.signature)

\* A step that handles a swarm event.
IsEvent == rx'.n = rx.n + 1

\* C1: handling an inbound gossip message that does not decode or that
\* verify rejects changes neither the model, the stake ledger, the peer map
\* nor the bandwidth counters, publishes nothing and leaves the loop running.
C1_DroppedChangesNothing ==
    [][IsEvent /\ Dropped(rx'.ev) =>
         /\ UNCHANGED <<model, ledger, peers, bandwidth, tick_counter>>
         /\ sent' = <<>>
         /\ pc' = "running"]_vars

\* C1's case: with stake on the ledger, the loop handled a message that
\* carries this node's own signatures over another payload than its own.
C1_Witness ==
    /\ rx.n = 2
    /\ ledger # <<>>
    /\ rx.ev.kind = "gossip" /\ rx.ev.decodes
    /\ rx.ev.signed.signature = sign_bytes(suite, Serialize(SignedPayload))
    /\ rx.ev.signed.payload.type = "SparseUpdate"
    /\ Dropped(rx.ev)

\* C5, as stated: a publish that failed, on gossipsub or on QUIC, is not
\* fatal: the loop is still running, and a tick that met the failure went on
\* to local_train_step, prune_stale and the dense attempt.
C5_PublishFailureNonFatal ==
    (\E i \in 1..Len(sent) : sent[i].outcome # "ok") =>
        /\ pc = "running"
        /\ rx.kind = "tick" =>
              {"local_train_step", "prune_stale", "maybe_broadcast_dense"}
                  \subseteq Range(steps)

(***************************************************************************)
(* Claims about the stake ledger (SpecLedger)                              *)
(***************************************************************************)
\* C11: every record of the ledger has stake_eth >= 0, stake_sol >= 0 and
\* reputation >= -1 (20 twentieths), so its combined weight lies in [0, 5]
\* (hundredths: 0..500); stake_weight of every peer lies there too and is 0
\* for a peer the ledger does not hold.
C11_LedgerBounds ==
    /\ \A p \in DOMAIN ledger :
          /\ ledger[p].stake_eth >= 0
          /\ ledger[p].stake_sol >= 0
          /\ ledger[p].reputation >= -20
          /\ combined_weight(ledger[p]) \in 0..500
    /\ \A p \in Ids :
          /\ stake_weight(ledger, p) \in 0..500
          /\ p \notin DOMAIN ledger => stake_weight(ledger, p) = 0

\* C11's case: negative deltas met the lower bounds of one record, large
\* ones drove another record's weight to the upper bound, and a third peer
\* is absent.
C11_Witness ==
    /\ lastledger.op = "update_stake"
    /\ \E p \in DOMAIN ledger :
          /\ ledger[p].stake_eth = 0
          /\ ledger[p].stake_sol = 0
          /\ ledger[p].reputation = -20
          /\ combined_weight(ledger[p]) = 0
    /\ \E p \in DOMAIN ledger : combined_weight(ledger[p]) = 500
    /\ \E p \in Ids : p \notin DOMAIN ledger

(***************************************************************************)
(* Claims about the tick handler (Spec)                                    *)
(***************************************************************************)
\* A step that is a run of the tick handler.
IsTick == tick_counter' = tick_counter + 1

\* The steps of on_tick in the order of the code.
TickOrder ==
    <<"heartbeat", "probe", "local_train_step", "prune_stale",
      "maybe_broadcast_dense", "check_topology_health">>

\* C12: in every run of the tick handler the Heartbeat is published first
\* and the SimilarityProbe second, both before local_train_step changes the
\* parameters (they carry the hash and the embedding of the parameters as
\* they were before the tick); prune_stale and the dense attempt come after
\* the training step (a DenseSnapshot carries the trained parameters).
C12_TickOrder ==
    [][IsTick =>
         /\ steps' = SubSeq(TickOrder, 1, Len(steps'))
         /\ Len(sent') >= 1
         /\ sent'[1].signed.payload = Heartbeat(SelfId, tensor_hash(model))
         /\ Len(sent') >= 2 =>
               sent'[2].signed.payload =
                   SimilarityProbe(embedding(model), SelfPosition, SelfId)
         /\ model' # model =>
               /\ Len(sent') >= 2
               /\ sent'[1].outcome # "gossip_err" /\ sent'[2].outcome # "gossip_err"
         /\ (ledger' # ledger \/ calls' # <<>> \/ Len(sent') >= 3) =>
               \E noise \in NodeNoises : model' = local_train_step(model, noise)
         /\ Len(sent') >= 3 =>
               sent'[3].signed.payload = DenseSnapshotMsg(tensor_snapshot(model'), SelfId)
      ]_vars

\* C12's case: a tick that published the heartbeat, the probe and a dense
\* snapshot and trained between the probe and the snapshot.
C12_Witness ==
    /\ rx.kind = "tick"
    /\ steps = TickOrder
    /\ Len(sent) = 3
    /\ sent[2].signed.payload.embedding # model.params
    /\ sent[3].signed.payload.snapshot.values = model.params

\* The allow_dense calls of the handler that ran in this step.
DenseCalls == {i \in 1..Len(calls') : calls'[i].op = "allow_dense"}

\* C13, as stated: a tick asks the dense budget (attempts a DenseSnapshot
\* publish) if and only if the tick counter after its increment is a
\* multiple of 12, and it asks for exactly D x 4 bytes.
C13_DenseEveryTwelfth ==
    [][IsTick =>
         /\ DenseCalls # {} <=> tick_counter' % DenseEvery = 0
         /\ \A i \in DenseCalls : calls'[i].bytes = Dim(model') * F32Bytes
      ]_vars

\* What the code does: the same for the ticks whose heartbeat and probe
\* publishes returned Ok; a tick ended by a failing publish asks for nothing.
DenseWhenReached ==
    [][IsTick =>
         /\ Cardinality(DenseCalls) <= 1
         /\ DenseCalls # {} <=>
               (tick_counter' % DenseEvery = 0 /\ "prune_stale" \in Range(steps'))
         /\ \A i \in DenseCalls : calls'[i].bytes = Dim(model') * F32Bytes
      ]_vars

(***************************************************************************)
(* Claims about the scheduling of the loop (SpecRun)                       *)
(***************************************************************************)
\* The handlers of inbound messages in the order they started.
MessageStarts == SelectSeq(loop.log, LAMBDA e : e.at = "start" /\ e.what # 0)

\* C14: at most one handler is running or suspended at any time; a handler
\* that started ends before any other handler starts; and the handlers of
\* inbound messages start in exactly the order of delivery, none skipped.
C14_OneHandlerAtATime ==
    /\ Len(loop.active) <= 1
    /\ \A i \in 1..Len(loop.log) :
          IF loop.log[i].at = "start"
          THEN IF i = Len(loop.log)
               THEN Len(loop.active) = 1 /\ loop.active[1].what = loop.log[i].what
               ELSE loop.log[i + 1] = [at |-> "end", what |-> loop.log[i].what]
          ELSE i > 1 /\ loop.log[i - 1] = [at |-> "start", what |-> loop.log[i].what]
    /\ \A k \in 1..Len(MessageStarts) : MessageStarts[k].what = k
    /\ Len(MessageStarts) + Len(loop.inbox) = loop.delivered

\* C14's case: a message handler is suspended at an await after an earlier
\* handler ended, while a later message waits in the stream and the ticker
\* is ready.
C14_Witness ==
    /\ Len(loop.active) = 1
    /\ loop.active[1].what > 0
    /\ Len(loop.log) >= 3
    /\ loop.inbox # <<>>
    /\ loop.due > 0


(***************************************************************************)
(* Claims about the reply to a similarity probe (SpecProbe)                *)
(***************************************************************************)
\* The step handles a SimilarityProbe that passed ConsensusEngine::verify.
IsProbe ==
    /\ rx'.n = rx.n + 1
    /\ rx'.ev.kind = "gossip" /\ rx'.ev.decodes
    /\ ConsensusVerify(suite, rx'.ev.signed)
    /\ rx'.ev.signed.payload.type = "SimilarityProbe"

ProbeSender == rx'.ev.signed.payload.sender

\* The peer map after the handler's update_peer(sender, ...).
PeersAfterUpdate ==
    update_peer(peers, ProbeSender, rx'.ev.signed.payload.embedding,
                rx'.ev.signed.payload.position, embedding(model), SelfPosition, now)

\* The sender is (is not) in a primary list select_neighbors can return.
SenderPrimary ==
    \E ranked \in Rankings(PeersAfterUpdate) :
        ProbeSender \in Range(select_neighbors(PeersAfterUpdate, ranked))
SenderNotPrimary ==
    \E ranked \in Rankings(PeersAfterUpdate) :
        ProbeSender \notin Range(select_neighbors(PeersAfterUpdate, ranked))

SparseCalls == {i \in 1..Len(calls') : calls'[i].op = "allow_sparse"}
SparseGranted == \E i \in SparseCalls : calls'[i].ok
SparsePublishes == {i \in 1..Len(sent') : sent'[i].signed.payload.type = "SparseUpdate"}

\* C15, as stated: on a verified SimilarityProbe from sender s, after
\* update_peer(s, ...), a SparseUpdate made with k = 16 is published if and
\* only if s is in the primary neighbor list and allow_sparse_update grants;
\* if s is not primary, mark_unreachable removes s from the peer map and no
\* sparse budget is consumed; if s is primary and the budget denies, s stays
\* in the peer map.
C15_ProbeReply ==
    [][IsProbe =>
         /\ SparseCalls # {} => SenderPrimary
         /\ SparseCalls = {} => SenderNotPrimary
         /\ SparsePublishes # {} <=> SparseGranted
         /\ \A i \in SparsePublishes :
               sent'[i].signed.payload.update =
                   make_sparse_update(model, SparseK, FALSE).update
         /\ SparseCalls = {} =>
               /\ ProbeSender \notin DOMAIN peers'
               /\ bandwidth' = bandwidth
         /\ (SparseCalls # {} /\ ~SparseGranted) => ProbeSender \in DOMAIN peers'
      ]_vars

\* What the code does: the same, except that a build with overflow checks
\* panics inside make_sparse_update(16) when the selected positions are not
\* in ascending order, after the budget granted and before any publish.
ProbeReplyUnlessPanicked ==
    [][IsProbe =>
         /\ SparseCalls # {} => SenderPrimary
         /\ SparseCalls = {} => SenderNotPrimary
         /\ Cardinality(SparseCalls) <= 1 /\ Cardinality(SparsePublishes) <= 1
         /\ SparsePublishes # {} <=> (SparseGranted /\ pc' # "panicked")
         /\ \A i \in SparsePublishes :
               sent'[i].signed.payload.update =
                   make_sparse_update(model, SparseK, FALSE).update
         /\ SparseCalls = {} =>
               /\ ProbeSender \notin DOMAIN peers'
               /\ bandwidth' = bandwidth
         /\ (SparseCalls # {} /\ ~SparseGranted) =>
               /\ ProbeSender \in DOMAIN peers'
               /\ SparsePublishes = {}
      ]_vars


(***************************************************************************)
(* Claims about the roll of the budget's window (SpecBandwidth)            *)
(***************************************************************************)
SparseCall == now' = now /\ lastcall'.op = "allow_sparse"
DenseCall == now' = now /\ lastcall'.op = "allow_dense"
WindowElapsed == now - bandwidth.window_start >= WindowSecs

\* C16: once sparse_sent has reached sparse_per_window every allow_sparse
\* call returns false until window_secs have elapsed since window_start; the
\* first allow_sparse or allow_dense call at or after that moment sets
\* window_start to the time of the call and resets sparse_sent and
\* dense_sent to 0 in the same step, before its own check and increment;
\* a call before that moment leaves window_start alone.
C16_WindowRoll ==
    [][/\ (SparseCall /\ ~WindowElapsed /\ bandwidth.sparse_sent >= SparsePerWindow) =>
              /\ ~lastcall'.ok
              /\ bandwidth' = bandwidth
       /\ ((SparseCall \/ DenseCall) /\ ~WindowElapsed) =>
              bandwidth'.window_start = bandwidth.window_start
       /\ (SparseCall /\ WindowElapsed) =>
              /\ lastcall'.ok
              /\ bandwidth' = [window_start |-> now, sparse_sent |-> 1, dense_sent |-> 0]
       /\ (DenseCall /\ WindowElapsed) =>
              /\ lastcall'.ok <=> lastcall'.bytes <= DenseBytesPerWindow
              /\ bandwidth' = [window_start |-> now, sparse_sent |-> 0,
                               dense_sent |-> IF lastcall'.ok THEN lastcall'.bytes ELSE 0]
      ]_vars

\* C16's case: the window was reset by a call at this second, the calls
\* since used up the sparse cap counted from zero, and the last was denied.
C16_Witness ==
    /\ now > 0
    /\ bandwidth = [window_start |-> now, sparse_sent |-> SparsePerWindow, dense_sent |-> 0]
    /\ grants.window.sparse = SparsePerWindow
    /\ lastcall = [op |-> "allow_sparse", ok |-> FALSE, bytes |-> 0]
    /\ grants.recent[0].sparse = SparsePerWindow


(***************************************************************************)
(* Claims about make_sparse_update (SpecInference)                         *)
(***************************************************************************)
\* The step is a make_sparse_update(k) call that returned its update.
IsMake == trail'.n = trail.n + 1 /\ trail'.op = "make_sparse_update"

\* delta[i] = params[i] + residual[i] of the model before the call.
DeltaBefore == [i \in 1..Dim(model) |-> model.params[i] + model.residual[i]]

Magnitude(x) == IF x < 0 THEN -x ELSE x

\* What the code does for the calls that return: exactly min(k, D) pairs,
\* the positions the k largest by |delta|, ties broken by ascending index,
\* each value delta at its position.
TopKWhenReturned ==
    [][IsMake =>
         LET k == trail'.arg[1]
             emitted == trail'.emitted
             u == update'[1]
             take == IF k < Dim(model) THEN k ELSE Dim(model)
         IN  /\ Len(u.indices) = take
             /\ Len(u.values) = take
             /\ Len(emitted) = take
             /\ \A a, b \in 1..take : a # b => emitted[a] # emitted[b]
             /\ \A a \in 1..take : emitted[a] \in 0..(Dim(model) - 1)
             /\ \A a \in 1..take : \A j \in 0..(Dim(model) - 1) :
                   j \notin Range(emitted) =>
                       \/ Magnitude(DeltaBefore[emitted[a] + 1]) > Magnitude(DeltaBefore[j + 1])
                       \/ /\ Magnitude(DeltaBefore[emitted[a] + 1]) = Magnitude(DeltaBefore[j + 1])
                          /\ emitted[a] < j
             /\ \A a \in 1..take : u.values[a] = DeltaBefore[emitted[a] + 1]
      ]_vars

\* A returned call with k = 2 of D = 3 and two positions tied in magnitude:
\* the larger position 1 and, of the tied 0 and 2, position 0 were emitted.
TopKReturnedWithTie ==
    /\ trail.op = "make_sparse_update"
    /\ trail.arg = <<2>>
    /\ Dim(model) = 3
    /\ trail.emitted = <<1, 0>>
    /\ Len(update[1].values) = 2
    /\ model.params[1] + model.residual[1] = 1

\* The step is a make_sparse_update(k) call, returned or panicked.
IsMakeCall == trail'.n = trail.n + 1 /\ trail'.op \in {"make_sparse_update", "panic"}

\* C17, as stated: make_sparse_update(k) emits exactly min(k, D) (index,
\* value) pairs with as many indices as values; the emitted positions are
\* the k largest by |delta[i]|, ties broken by ascending index, and each
\* emitted value equals delta at its position.
C17_TopK ==
    [][IsMakeCall =>
         LET k == trail'.arg[1]
             emitted == trail'.emitted
             take == IF k < Dim(model) THEN k ELSE Dim(model)
         IN  /\ trail'.op = "make_sparse_update"
             /\ Len(update'[1].indices) = take
             /\ Len(update'[1].values) = take
             /\ Len(emitted) = take
             /\ \A a \in 1..take : \A j \in 0..(Dim(model) - 1) :
                   j \notin Range(emitted) =>
                       \/ Magnitude(DeltaBefore[emitted[a] + 1]) > Magnitude(DeltaBefore[j + 1])
                       \/ /\ Magnitude(DeltaBefore[emitted[a] + 1]) = Magnitude(DeltaBefore[j + 1])
                          /\ emitted[a] < j
             /\ \A a \in 1..take : update'[1].values[a] = DeltaBefore[emitted[a] + 1]
      ]_vars

\* C18: after make_sparse_update(k), residual[i] = 0 at every emitted
\* position i, and residual[j] is unchanged at every position j that was
\* not emitted.
C18_ErrorFeedback ==
    [][IsMakeCall =>
         /\ Len(model'.residual) = Len(model.residual)
         /\ \A i \in 0..(Dim(model) - 1) :
               IF i \in Range(trail'.emitted)
               THEN model'.residual[i + 1] = 0
               ELSE model'.residual[i + 1] = model.residual[i + 1]
      ]_vars

\* C18's case: make_sparse_update(1) on params [1, 1], residual [2, -1]
\* emitted position 0; its residual is 0 and position 1 kept its -1.
C18_Witness ==
    /\ trail.op = "make_sparse_update"
    /\ trail.arg = <<1>>
    /\ trail.emitted = <<0>>
    /\ model.params = <<1, 1>>
    /\ model.residual = <<0, -1>>


\* C19, as stated: make_sparse_update on a model with D = 0, or called with
\* k = 0, returns an empty update (no indices, no values) that carries the
\* version the model had before the call, and leaves the model version
\* unchanged.
C19_EmptyKeepsVersion ==
    [][(IsMakeCall /\ (Dim(model) = 0 \/ trail'.arg[1] = 0)) =>
         /\ trail'.op = "make_sparse_update"
         /\ update' = <<[indices |-> <<>>, values |-> <<>>, version |-> model.version]>>
         /\ model'.version = model.version
      ]_vars

\* What the code does: with D = 0 as stated (the early return); with k = 0
\* and D > 0 the update is empty, but the version is incremented
\* (saturating) and the update carries the incremented version.
EmptyUpdateVersion ==
    [][(IsMakeCall /\ (Dim(model) = 0 \/ trail'.arg[1] = 0)) =>
         /\ trail'.op = "make_sparse_update"
         /\ update'[1].indices = <<>> /\ update'[1].values = <<>>
         /\ model'.params = model.params /\ model'.residual = model.residual
         /\ update'[1].version = model'.version
         /\ model'.version =
               IF Dim(model) = 0 THEN model.version
               ELSE IF model.version < U64Max THEN model.version + 1 ELSE U64Max
      ]_vars


(***************************************************************************)
(* Claims about consecutive make_sparse_update calls (SpecInference)       *)
(***************************************************************************)
\* The step is a make_sparse_update(k) call that follows a returned
\* make_sparse_update(k) call with the same k and nothing in between.
IsRepeatedMake ==
    /\ IsMakeCall
    /\ trail.op = "make_sparse_update"
    /\ trail'.arg = trail.arg

\* The values the previous call returned are the params at the positions it
\* emitted: the residual was 0 there before that call.
PreviousSentParams ==
    \A a \in 1..Len(trail.emitted) : update[1].values[a] = model.params[trail.emitted[a] + 1]

\* C27, as stated: make_sparse_update never modifies params, it changes only
\* residual (at emitted positions) and version; consequently two
\* consecutive make_sparse_update(k) calls with no other operation in
\* between emit the same positions with the same values.
C27_RepeatEmitsSame ==
    [][/\ IsMakeCall => model'.params = model.params
       /\ (IsRepeatedMake /\ IsMake) =>
              /\ trail'.emitted = trail.emitted
              /\ update'[1].values = update[1].values
      ]_vars

\* C27, amended: make_sparse_update never modifies params, it changes only
\* residual (at emitted positions) and version (not at all when it
\* panics); two consecutive make_sparse_update(k) calls emit the same
\* positions with the same values if the residual was 0 at the positions
\* the first call emitted; otherwise the second call works on params alone
\* at those positions: it emits the k largest of params + residual after
\* the first call, each with that value.  (A second call that panics where
\* the first returned is a call under overflow checks after one without.)
C27_RepeatEmitsSameIfNoResidual ==
    [][/\ IsMakeCall =>
              /\ model'.params = model.params
              /\ \A i \in 1..Dim(model) :
                    model'.residual[i] # model.residual[i] => (i - 1) \in Range(trail'.emitted)
              /\ model'.version \in {model.version, SaturatingInc(model.version)}
       /\ (IsRepeatedMake /\ PreviousSentParams) =>
              /\ trail'.emitted = trail.emitted \/ trail'.op = "panic"
              /\ trail'.op = "panic" => trail.underflow
              /\ IsMake => update'[1].values = update[1].values
       /\ (IsRepeatedMake /\ IsMake) =>
              \A a \in 1..Len(trail'.emitted) :
                  update'[1].values[a] =
                      model.params[trail'.emitted[a] + 1] + model.residual[trail'.emitted[a] + 1]
      ]_vars

\* C27's case: make_sparse_update(1) returned twice in a row on params
\* [1, 2] with no residual: both calls emitted position 1 with value 2.
C27_Witness ==
    /\ trail.n = 2 /\ trail.op = "make_sparse_update" /\ trail.arg = <<1>>
    /\ trail.version_before = 2 /\ model.version = 3
    /\ model.params = <<1, 2>> /\ model.residual = <<0, 0>>
    /\ trail.emitted = <<1>>
    /\ update[1].values = <<2>>

(***************************************************************************)
(* Claims about apply_sparse_update (SpecInference)                        *)
(***************************************************************************)
\* The step is an apply_sparse_update(u) call.
IsApply == trail'.n = trail.n + 1 /\ trail'.op = "apply_sparse_update"

\* The values of the entries of u whose decoded position is pos, in the
\* order of u (an entry is an index paired with a value).
ValuesAt(u, pos) ==
    LET decoded == decompress_indices(u.indices)
        count == IF Len(u.values) < Len(decoded) THEN Len(u.values) ELSE Len(decoded)
        named == SelectSeq([n \in 1..count |-> n], LAMBDA n : decoded[n] = pos)
    IN  [i \in 1..Len(named) |-> u.values[named[i]]]

\* 0.5 * old + 0.5 * v for each v in turn, in whole quanta.
RECURSIVE Halved(_, _)
Halved(old, vs) ==
    IF vs = <<>> THEN old ELSE Halved((old + Head(vs)) \div 2, Tail(vs))

\* C20: apply_sparse_update(u) sets params[pos] to 0.5 * old + 0.5 * v for
\* every decoded (pos, v) with pos < D and adds old - params[pos] to
\* residual[pos]; an entry with pos >= D is skipped without error and
\* without keeping the in-range entries from being applied; positions not
\* named by u keep their params and residual.
C20_SkipOutOfRange ==
    [][IsApply =>
         LET u == trail'.arg[1]
         IN  /\ Len(model'.params) = Len(model.params)
             /\ Len(model'.residual) = Len(model.residual)
             /\ \A pos \in 0..(Dim(model) - 1) :
                   /\ model'.params[pos + 1] = Halved(model.params[pos + 1], ValuesAt(u, pos))
                   /\ model'.residual[pos + 1] =
                          model.residual[pos + 1]
                              + (model.params[pos + 1] - model'.params[pos + 1])
      ]_vars

\* C20's case: the update with decoded positions 0 and 7 and values 4 and
\* 2 applied to the model of dimension 2 with params [0, 0]: position 0 was
\* merged to 2, its residual took 0 - 2, and position 1 is as it was.
C20_Witness ==
    /\ trail.op = "apply_sparse_update"
    /\ trail.n = 1
    /\ trail.arg[1].indices = <<0, 7>>
    /\ model.params = <<2, 0>>
    /\ model.residual = <<-2, 0>>


\* C21, as stated: for every SparseUpdate u, including one whose index list
\* is empty, after apply_sparse_update(u) the model version equals
\* max(version before, u.version).
C21_VersionMax ==
    [][IsApply =>
         model'.version = IF trail'.arg[1].version > model.version
                          THEN trail'.arg[1].version ELSE model.version
      ]_vars

\* What the code does: the same for an update with at least one index
\* (whether or not a value or an in-range position goes with it); an update
\* with no indices returns before the version is touched.
VersionMaxUnlessEmpty ==
    [][IsApply =>
         IF trail'.arg[1].indices = <<>>
         THEN model' = model
         ELSE model'.version = IF trail'.arg[1].version > model.version
                               THEN trail'.arg[1].version ELSE model.version
      ]_vars


(***************************************************************************)
(* Claims about the bandwidth gates of the handlers (SpecGates)            *)
(***************************************************************************)
SparseDenied == \E i \in SparseCalls : ~calls'[i].ok
DenseDenied == \E i \in DenseCalls : ~calls'[i].ok
DensePublishes == {i \in 1..Len(sent') : sent'[i].signed.payload.type = "DenseSnapshot"}

\* C22: when allow_sparse_update (in the probe handler) or
\* allow_dense_snapshot (in the tick) returns false, no SparseUpdate /
\* DenseSnapshot is published, make_sparse_update is not called (params,
\* residual and version are unchanged by the denial), the bandwidth
\* counters are not incremented, and the handler returns normally so the
\* loop continues.
C22_DenialContained ==
    [][/\ (IsProbe /\ SparseDenied) =>
              /\ sent' = <<>>
              /\ model' = model
              /\ bandwidth'.sparse_sent <= bandwidth.sparse_sent
              /\ bandwidth'.dense_sent <= bandwidth.dense_sent
              /\ pc' = "running"
       /\ (IsTick /\ DenseDenied) =>
              /\ DensePublishes = {}
              /\ \E noise \in GateNoises(Dim(model)) : model' = local_train_step(model, noise)
              /\ bandwidth'.sparse_sent <= bandwidth.sparse_sent
              /\ bandwidth'.dense_sent <= bandwidth.dense_sent
              /\ steps'[Len(steps')] = "check_topology_health"
              /\ pc' = "running"
      ]_vars

\* C22's case: the 12th tick of a node whose snapshot exceeds the dense
\* budget was denied, after a probe had been denied the sparse budget in
\* the same window; the loop is running.
C22_Witness ==
    /\ tick_counter = DenseEvery
    /\ rx.kind = "tick"
    /\ calls = <<[op |-> "allow_dense", bytes |-> 3 * F32Bytes, ok |-> FALSE]>>
    /\ bandwidth.sparse_sent = SparsePerWindow
    /\ rx.n > SparsePerWindow
    /\ pc = "running"


(***************************************************************************)
(* Claims about the realtime pool (SpecQuic)                               *)
(***************************************************************************)
\* The step is the removal at the end of a broadcast.
IsCompaction == gateway.pc = "pass" /\ gateway'.pc = "idle"

\* C23: in QuicGateway::broadcast, with the accept task free to append
\* sessions to the pool at any point during the pass, the swap-and-pop
\* removal in descending index order after the pass removes exactly the
\* sessions whose stream open failed during the pass: no session that was
\* live during the pass and no session appended during the pass is
\* removed, and no failed session remains.
C23_RemovesExactlyFailed ==
    [][IsCompaction =>
         /\ ~gateway'.panicked
         /\ Range(gateway'.connections) = Range(gateway.connections) \ gateway.failed
         /\ Len(gateway'.connections) = Len(gateway.connections) - Cardinality(gateway.failed)
         /\ gateway.opened \subseteq Range(gateway'.connections)
         /\ gateway.pushed \subseteq Range(gateway'.connections)
         /\ gateway.failed \cap Range(gateway'.connections) = {}
      ]_vars

\* C23's case: a broadcast ended in which the opens of sessions 1 and 3
\* failed, session 2 was live and session 4 was accepted during the pass;
\* the pool holds 2 and 4.
C23_Witness ==
    /\ gateway.pc = "idle"
    /\ gateway.returned = "true"
    /\ gateway.failed = {1, 3}
    /\ gateway.opened = {2}
    /\ gateway.pushed = {4}
    /\ Range(gateway.connections) = {2, 4}


(***************************************************************************)
(* Claims about what the signature covers (SpecCrypto)                     *)
(***************************************************************************)
\* Staking scores a message can carry, in hundredths.
ScoreValues == {0, 10, 250, 500}

\* C24: ConsensusEngine::verify depends only on the payload and the
\* signature bundle: two SignedGossip values that differ only in
\* staking_score get the same verify result, so the score can be changed
\* in transit without causing rejection.
C24_ScoreNotCovered ==
    (cmsg # <<>> /\ cverdict # "none") =>
        \A score \in ScoreValues :
            ConsensusVerify(suite, [cmsg[1] EXCEPT !.staking_score = score])
                <=> cverdict = "true"

\* C24's case: a message this node signed, whose staking_score was changed
\* in transit and nothing else, was verified and accepted.
C24_Witness ==
    /\ cmsg # <<>>
    /\ corigin.how = "tampered" /\ corigin.signer = suite /\ corigin.bundle_intact
    /\ cmsg[1].staking_score = 500
    /\ cmsg[1] = [ConsensusSign(suite, ledger, cmsg[1].payload) EXCEPT !.staking_score = 500]
    /\ cverdict = "true"


(***************************************************************************)
(* Claims about a system of nodes (SpecSystem)                             *)
(***************************************************************************)
\* The nodes of the system after the step: suite, model, ledger, peer map.
NodesAfter ==
    {[suite |-> suite', model |-> model', ledger |-> ledger', peers |-> peers']}
    \cup (IF net'.parked = <<>> THEN {}
          ELSE {[suite |-> net'.parked.suite, model |-> net'.parked.model,
                 ledger |-> net'.parked.ledger, peers |-> net'.parked.peers]})

\* The suites of the nodes before the step, and the model of the node that
\* holds suite k before and after the step.
SuitesBefore == {suite} \cup (IF net.parked = <<>> THEN {} ELSE {net.parked.suite})
ModelBefore(k) == IF suite = k THEN model ELSE net.parked.model
ModelAfter(k) == IF suite' = k THEN model' ELSE net'.parked.model

\* The step is the handling of an inbound message.
IsReceive == rx'.n = rx.n + 1 /\ rx'.kind = "gossip"

\* C25: in a system of two or more nodes whose crypto suites hold distinct
\* keys, where the transport does not deliver a node's own publications
\* back to it, no inbound message ever passes verification; so in every
\* reachable state each node's stake ledger and topology peer map are
\* empty, no SparseUpdate is ever published, and each node's params change
\* only through its own local_train_step.
C25_NothingAccepted ==
    [][/\ IsReceive =>
              /\ ~ConsensusVerify(suite, rx'.ev.signed)
              /\ model' = model /\ ledger' = ledger /\ peers' = peers
              /\ bandwidth' = bandwidth /\ sent' = <<>> /\ pc' = pc
       /\ \A n \in NodesAfter : n.ledger = <<>> /\ n.peers = <<>>
       /\ \A i \in 1..Len(sent') : sent'[i].signed.payload.type # "SparseUpdate"
       /\ \A k \in SuitesBefore :
             ModelAfter(k) # ModelBefore(k) =>
                 /\ suite = k /\ suite' = k
                 /\ tick_counter' = tick_counter + 1
                 /\ \E noise \in NodeNoises : model' = local_train_step(model, noise)
      ]_vars

\* C25's case: both nodes have ticked, the second one MaxSysTicks times;
\* the first has handled (and dropped) a SimilarityProbe and at least one
\* more message of the second, and holds neither stake records nor peers.
C25_Witness ==
    /\ net.parked # <<>>
    /\ suite = CryptoSuite(1, 2)
    /\ net.parked.tick_counter = MaxSysTicks
    /\ tick_counter >= 1
    /\ rx.kind = "gossip" /\ rx.n >= 2
    /\ rx.ev.signed.payload.type = "SimilarityProbe"
    /\ rx.ev.signed.signature.sol.pubkey = net.parked.suite.sol.pubkey
    /\ ledger = <<>> /\ peers = <<>>


(***************************************************************************)
(* Claims about the peer map after a probe (SpecProbe)                     *)
(***************************************************************************)
\* Peer q is in the primary list for some order the sort can produce, and
\* in the backup list for every order.
CanBePrimary(ps, q) ==
    \E ranked \in Rankings(ps) : q \in Range(neighbor_sets(ps, ranked).primary)
IsBackup(ps, q) ==
    /\ q \in DOMAIN ps
    /\ \A ranked \in Rankings(ps) : q \in Range(neighbor_sets(ps, ranked).backups)

\* The admissible peers other than q that score above q.
Above(ps, q) == {p \in DOMAIN ps \ {q} : ps[p].score >= MinScore /\ ps[p].score > ps[q].score}

\* C26: after the handler of a verified SimilarityProbe from sender s has
\* finished, s is either a member of the primary neighbor list or absent
\* from the peer map; a prober whose score is below min_score, or who ranks
\* below max_neighbors admissible peers, never remains in the map; and a
\* peer can sit in the backup list only by being displaced from primary by
\* a later probe of another peer.
C26_PrimaryOrAbsent ==
    [][/\ IsProbe =>
              /\ \/ ProbeSender \notin DOMAIN peers'
                 \/ CanBePrimary(peers', ProbeSender)
              /\ PeersAfterUpdate[ProbeSender].score < MinScore =>
                     ProbeSender \notin DOMAIN peers'
              /\ Cardinality(Above(PeersAfterUpdate, ProbeSender)) >= MaxNeighbors =>
                     ProbeSender \notin DOMAIN peers'
       /\ \A q \in PeerIds :
             (IsBackup(peers', q) /\ ~IsBackup(peers, q)) =>
                 /\ IsProbe
                 /\ ProbeSender # q
                 /\ q \in DOMAIN peers /\ CanBePrimary(peers, q)
      ]_vars

\* C26's case: peer 2 was primary, then the probe of peer 1, which scores
\* higher, was handled: peer 1 is primary and peer 2 sits in the backups.
C26_Witness ==
    /\ rx.n >= 2
    /\ rx.ev.signed.payload.type = "SimilarityProbe"
    /\ rx.ev.signed.payload.sender = 1
    /\ ConsensusVerify(suite, rx.ev.signed)
    /\ DOMAIN peers = {1, 2}
    /\ IsBackup(peers, 2)
    /\ CanBePrimary(peers, 1)


(***************************************************************************)
(* Claims about a sparse send whose publish fails (Spec)                   *)
(***************************************************************************)
\* The step is the handler of a verified probe that made a SparseUpdate and
\* met an Err in gossipsub's publish.
IsFailedSparseSend ==
    /\ IsProbe
    /\ Len(sent') = 1
    /\ sent'[1].signed.payload.type = "SparseUpdate"
    /\ sent'[1].outcome = "gossip_err"

\* The positions make_sparse_update(16) emits: the min(16, D) largest of
\* params + residual, with the earlier position first among equals.
FailedSendPositions ==
    SubSeq(SortByMagnitude(DeltaOf(model)), 1, Min(SparseK, Dim(model)))

\* C28: the effects of a granted sparse send are committed before the
\* publish is attempted and are not rolled back when the publish fails:
\* after allow_sparse_update returned true and make_sparse_update ran, a
\* failing publish leaves sparse_sent incremented (over the count of the
\* window the call fell in), the residual zeroed at the emitted positions
\* and the version bumped, and the handler ends in an Err.
C28_FailedPublishKeepsEffects ==
    [][IsFailedSparseSend =>
          /\ calls' = <<[op |-> "allow_sparse", bytes |-> 0, ok |-> TRUE]>>
          /\ bandwidth'.sparse_sent = rotate(bandwidth, now).sparse_sent + 1
          /\ bandwidth'.sparse_sent >= 1
          /\ \A a \in 1..Len(FailedSendPositions) :
                model'.residual[FailedSendPositions[a] + 1] = 0
          /\ Len(sent'[1].signed.payload.update.values) = Len(FailedSendPositions)
          /\ model'.version = SaturatingInc(model.version)
          /\ sent'[1].signed.payload.update.version = model'.version
          /\ model'.params = model.params
          /\ pc' = "exited"
      ]_vars

\* C28's case: the node merged a peer's update, which left a residual, and
\* then answered a probe; the publish failed and the loop ended with the
\* grant counted, the residual (part of the value sent for position 0)
\* zeroed and the version bumped.
C28_Witness ==
    /\ pc = "exited"
    /\ Len(sent) = 1
    /\ sent[1].signed.payload.type = "SparseUpdate"
    /\ sent[1].outcome = "gossip_err"
    /\ bandwidth.sparse_sent = 1
    /\ model.residual = <<0, 0>>
    /\ sent[1].signed.payload.update.values[1] # model.params[1]
    /\ model.version = sent[1].signed.payload.update.version


(***************************************************************************)
(* Claims about the two reads of the model in one tick (Spec)              *)
(***************************************************************************)
\* The step is a tick whose heartbeat and probe were both handed to
\* publish_signed.
IsTickWithProbe ==
    /\ tick_counter' = tick_counter + 1
    /\ Len(sent') >= 2

\* C29: within one tick the Heartbeat's model_hash and the
\* SimilarityProbe's embedding describe the same model state, the one the
\* tick started with: the hash is that of the probe's embedding at the
\* version the tick started with, no operation that changes params or
\* version runs between the two reads, and the train step of the tick
\* comes after both.
C29_HashAndEmbeddingAgree ==
    [][IsTickWithProbe =>
          /\ sent'[1].signed.payload.type = "Heartbeat"
          /\ sent'[2].signed.payload.type = "SimilarityProbe"
          /\ sent'[1].signed.payload.model_hash =
                 TensorSnapshotHash(TensorSnapshotNew(sent'[2].signed.payload.embedding,
                                                      model.version))
          /\ sent'[2].signed.payload.embedding = model.params
          /\ "local_train_step" \in Range(steps') =>
                 /\ model'.params # model.params
                 /\ model'.version = SaturatingInc(model.version)
      ]_vars

\* C29's case: a tick after a peer's update was merged published both
\* messages, with the QUIC broadcast of the heartbeat failing in between,
\* and trained afterwards.
C29_Witness ==
    /\ tick_counter >= 1 /\ rx.kind = "tick" /\ rx.n >= 1
    /\ Len(sent) >= 2
    /\ sent[1].outcome = "quic_failed"
    /\ sent[2].signed.payload.type = "SimilarityProbe"
    /\ sent[2].signed.payload.embedding # NodeParams
    /\ sent[2].signed.payload.embedding # model.params
    /\ "local_train_step" \in Range(steps)

====
